---- MODULE Spec2Model ----
(***************************************************************************)
(* A model of StyleLearningPlugin (src/plugin.py): the message gate, the   *)
(* dedup cache, the message store, the learning scheduler with its         *)
(* background analysis tasks, the statistics recorder and the bulk         *)
(* importer.                                                               *)
(*                                                                         *)
(* Text is a sequence of one-character strings; a character outside ASCII  *)
(* is written by its code point ("U+FF01" is the full-width '!').  A       *)
(* session_id is the sequence of its ':'-separated segments, so that the   *)
(* f-strings that build cache keys are sequence concatenations.  A Python  *)
(* value whose type matters is a record [t |-> type, v |-> value].  A dict *)
(* is a function whose DOMAIN is its key set.  Time is in whole seconds.   *)
(* The update_time / created_at columns and user_name, which no code path  *)
(* reads back, are left out of the stored rows.                            *)
(***************************************************************************)
EXTENDS Integers, Sequences, FiniteSets, TLC

VARIABLES
    now,             \* time.time(), in seconds
    ticks,           \* how often the clock has advanced
    config,          \* self.config (the options the code reads)
    message_cache,   \* self.message_cache : key -> [timestamp, count]
    messages,        \* table messages, in insertion order (id = position)
    style_rows,      \* table style_features : <<user_id, feature_name>> -> text
    statistics,      \* table statistics : metric_name -> metric_value (text)
    learning_tasks,  \* self.learning_tasks : session_id -> task (thread) id
    tasks_lock,      \* self.tasks_lock : "free" or the caller holding it
    style_features,  \* self.style_features : user_id -> style bundle
    tasks,           \* the threads started by _trigger_learning, by id
    call,            \* per caller thread: the public operation it is in
    nCalls,          \* public operations started so far
    input,           \* the argument of the operation under study (SpecGate, SpecImport)
    copies           \* history: per cache key, the live copies that passed the gate
                     \* and the import lines that used the key

vars == <<now, ticks, config, message_cache, messages, style_rows, statistics,
          learning_tasks, tasks_lock, style_features, tasks, call, nCalls, input, copies>>

-----------------------------------------------------------------------------
(* Bounds of the model *)

MaxCalls == 3          \* public operations per behaviour (Spec)
MaxFairCalls == 2      \* public operations per behaviour (FairSpec)
MaxDedupCalls == 5     \* handle_message calls per behaviour (SpecDedup)
MaxStatCalls == 3      \* handle_message calls per behaviour (SpecStats)
MaxImportCalls == 3    \* public operations per behaviour (SpecImport)
MaxGateCalls == 2      \* handle_message calls per behaviour (SpecGate)
MaxTicks == 2          \* clock advances per behaviour
StartTime == 1700000000 \* the clock when the plugin is constructed
batch_size == 2        \* learning.batch_size as configured in the model

(* Program constants *)

max_duplicate_count == 3
min_message_length == 2
CacheTTL == 3600
default_batch_size == 20

-----------------------------------------------------------------------------
(* Python dicts and strings *)

EmptyDict == [k \in {} |-> 0]

Put(d, k, v) == [x \in (DOMAIN d) \cup {k} |-> IF x = k THEN v ELSE d[x]]

Del(d, k) == [x \in (DOMAIN d) \ {k} |-> d[x]]

Get(d, k, default) == IF k \in DOMAIN d THEN d[k] ELSE default

PyNone == [t |-> "NoneType"]

PyStr(s) == [t |-> "str", v |-> s]

PyInt(n) == [t |-> "int", n |-> n]

Whitespace == {" ", "\t", "\n", "\r"}

RECURSIVE lstrip(_)
lstrip(s) == IF s # <<>> /\ Head(s) \in Whitespace THEN lstrip(Tail(s)) ELSE s

RECURSIVE rstrip(_)
rstrip(s) ==
    IF s # <<>> /\ s[Len(s)] \in Whitespace
    THEN rstrip(SubSeq(s, 1, Len(s) - 1))
    ELSE s

strip(s) == rstrip(lstrip(s))

startswith(s, p) == Len(p) <= Len(s) /\ SubSeq(s, 1, Len(p)) = p

endswith(s, p) == Len(p) <= Len(s) /\ SubSeq(s, Len(s) - Len(p) + 1, Len(s)) = p

\* Python's  w in s  for strings
contains(s, w) ==
    \E i \in 1..(Len(s) - Len(w) + 1) : SubSeq(s, i, i + Len(w) - 1) = w

\* re.search(r'(http|https)://\S+', s)
UrlSchemes ==
    { <<"h", "t", "t", "p", ":", "/", "/">>,
      <<"h", "t", "t", "p", "s", ":", "/", "/">> }

search_url(s) ==
    \E i \in 1..Len(s) : \E p \in UrlSchemes :
        /\ i + Len(p) <= Len(s)
        /\ SubSeq(s, i, i + Len(p) - 1) = p
        /\ s[i + Len(p)] \notin Whitespace

\* str(n) for an integer n >= 0
Digit(d) == CASE d = 0 -> "0" [] d = 1 -> "1" [] d = 2 -> "2" [] d = 3 -> "3"
              [] d = 4 -> "4" [] d = 5 -> "5" [] d = 6 -> "6" [] d = 7 -> "7"
              [] d = 8 -> "8" [] d = 9 -> "9"

RECURSIVE str_int(_)
str_int(n) == IF n < 10 THEN <<Digit(n)>> ELSE Append(str_int(n \div 10), Digit(n % 10))

-----------------------------------------------------------------------------
(* Texts used as message contents and transcript lines *)

T_hello == <<"h", "e", "l", "l", "o">>
T_hi_q == <<"h", "i", "?">>
T_hi_q_sp == <<"h", "i", "?", " ">>
T_cmd == <<"!", "h", "e", "l", "p">>
T_cmd_sp == <<" ", " ", "!", "h", "e", "l", "p">>
T_cmd_fw == <<"U+FF01", "g", "o">>
T_short == <<"a">>
T_short_sp == <<" ", " ", "a", " ", " ">>
T_url == <<"s", "e", "e", " ", "h", "t", "t", "p", ":", "/", "/", "a", ".", "b">>
T_urls == <<"h", "t", "t", "p", "s", ":", "/", "/", "x">>
T_nourl == <<"h", "t", "t", "p", ":", "/", "/">>
T_bad == <<"s", "o", " ", "b", "a", "d", " ", "d", "a", "y">>
T_good == <<"U+597D", "U+7684">>
T_empty == <<>>
T_ts_dash == <<"[", "2", "0", "2", "3", "-", "1", "0", "-", "0", "5", " ",
               "1", "4", ":", "3", "0", ":", "0", "0", "]", " ",
               "h", "e", "l", "l", "o">>
T_ts_slash == <<"2", "0", "2", "3", "/", "1", "0", "/", "0", "5", " ",
                "1", "4", ":", "3", "0", ":", "0", "0", " ",
                "h", "e", "l", "l", "o">>
T_ts_range == <<"2", "0", "2", "3", "-", "1", "3", "-", "0", "5", " ",
                "1", "4", ":", "3", "0", ":", "0", "0", " ",
                "h", "e", "l", "l", "o">>

T_neg == <<"U+5F88", "U+5DEE">>
T_both == <<"U+4E0D", "U+597D">>
T_thanks == <<"U+8C22", "U+8C22">>
T_haha == <<"U+54C8", "U+54C8">>
T_wow == <<"U+5F88", "U+597D", "!">>
T_smile == <<"U+1F600", "U+1F600">>

Texts ==
    { T_hello, T_hi_q, T_hi_q_sp, T_cmd, T_cmd_sp, T_cmd_fw, T_short, T_short_sp, T_url,
      T_urls, T_nourl, T_bad, T_good, T_empty, T_ts_dash, T_ts_slash, T_ts_range,
      T_neg, T_both, T_thanks, T_haha, T_wow, T_smile }

\* hashlib.md5(content.encode('utf-8')).hexdigest(), for the texts above
md5(s) ==
    CASE s = T_hello -> "5d41402abc4b2a76b9719d911017c592"
      [] s = T_hi_q -> "9ae082aee5920d4e04ba2ea2509be2e8"
      [] s = T_hi_q_sp -> "fba2865eab3f96207a43ff7ce5386ca7"
      [] s = T_cmd -> "87c5576edf613eb448c7acef625803d3"
      [] s = T_cmd_sp -> "45542b0008b673cc34788ecd456c4077"
      [] s = T_cmd_fw -> "a7e56db280db05dc04276aad1eee0d5e"
      [] s = T_short -> "0cc175b9c0f1b6a831c399e269772661"
      [] s = T_short_sp -> "5b942f60a79381b74c046a5c122796dd"
      [] s = T_url -> "a05168d0891dcfc8cf6308e1f4970cdf"
      [] s = T_urls -> "7d0708a6f06c78b590ece7d8fc0fcc3f"
      [] s = T_nourl -> "dbd7790bcd23fde7607101ef6a633779"
      [] s = T_bad -> "fb7d561ef59c1e229fbcce77bd1b5cc7"
      [] s = T_good -> "375ec8858f2e8ec21295958624199520"
      [] s = T_empty -> "d41d8cd98f00b204e9800998ecf8427e"
      [] s = T_ts_dash -> "c4365b6ae91af81d606fd07fd190bb04"
      [] s = T_ts_slash -> "a120854371a3dcd122e97323dcc30fc0"
      [] s = T_ts_range -> "7e1dfefda8ff2e35b30494f78b0d394a"
      [] s = T_neg -> "6c47d4c8b22cc1a5aef5eb9d33edb5fc"
      [] s = T_both -> "3ed53de49b127ac414e6afff35b04005"
      [] s = T_thanks -> "a34490b593cdc390c77104721ba7eb39"
      [] s = T_haha -> "8c8fa3529ee34d4e69a0baafb7069da3"
      [] s = T_wow -> "a9a5b78f8a9b3754695931ace0a4bcb7"
      [] s = T_smile -> "583e20fcd71bc0ef4062f767817002ba"

-----------------------------------------------------------------------------
(* Configuration: the default_config of _load_config, batch_size as bounded *)

DefaultConfig ==
    [ command_prefix |-> { <<"!">>, <<"U+FF01">>, <<"/">> },
      min_message_length |-> min_message_length,
      max_duplicate_count |-> max_duplicate_count,
      sensitive_words |-> {},
      whitelist_users |-> {},
      blacklist_users |-> {},
      batch_size |-> batch_size ]

-----------------------------------------------------------------------------
(* Message Gate *)

required_fields == {"user_id", "user_name", "content", "send_time", "session_id"}

_is_valid_message_format(message) == \A f \in required_fields : f \in DOMAIN message

_extract_message_metadata(message) ==
    [ user_id |-> message["user_id"],
      content |-> message["content"],
      send_time |-> message["send_time"],
      session_id |-> message["session_id"],
      is_group |-> Get(message, "is_group", FALSE),
      reply_to |-> Get(message, "reply_to", PyNone) ]

\* message["content"].strip() raises AttributeError unless content is a str
filter_raises(message) == message.content.t # "str"

\* a filter that tests the command prefix on the untrimmed content
_filter_message_untrimmed_prefix(message, cfg) ==
    LET raw == message.content.v
        content == strip(raw)
    IN  /\ \A prefix \in cfg.command_prefix : ~startswith(raw, prefix)
        /\ Len(content) >= cfg.min_message_length
        /\ message.user_id \notin cfg.blacklist_users
        /\ (cfg.whitelist_users # {} => message.user_id \in cfg.whitelist_users)
        /\ ~search_url(content)
        /\ \A word \in cfg.sensitive_words : ~contains(content, word)

_filter_message(message, cfg) ==
    LET content == strip(message.content.v)
        user_id == message.user_id
    IN  /\ \A prefix \in cfg.command_prefix : ~startswith(content, prefix)
        /\ ~(Len(content) < cfg.min_message_length)
        /\ user_id \notin cfg.blacklist_users
        /\ ~(cfg.whitelist_users # {} /\ user_id \notin cfg.whitelist_users)
        /\ ~search_url(content)
        /\ \A word \in cfg.sensitive_words : ~contains(content, word)

-----------------------------------------------------------------------------
(* Dedup Cache *)

\* a purge that also keeps an entry aged exactly one hour
purge_cache_keeps_boundary(cache, current_time) ==
    [k \in {k \in DOMAIN cache : current_time - cache[k].timestamp <= CacheTTL} |-> cache[k]]

\* the dict comprehension of _is_duplicate_message: entries younger than one hour
purge_cache(cache, current_time) ==
    [k \in {x \in DOMAIN cache : current_time - cache[x].timestamp < CacheTTL}
        |-> cache[k]]

\* f"{session_id}:{message_hash}"
cache_key(session_id, content) == session_id \o <<md5(content)>>

\* f"import:{session_id}:{md5(line)}"
import_cache_key(session_id, line) == <<"import">> \o session_id \o <<md5(line)>>

\* message_cache after _is_duplicate_message
dedup_cache(message, cache, cfg, current_time) ==
    LET purged == purge_cache(cache, current_time)
        key == cache_key(message.session_id, message.content.v)
    IN  IF key \in DOMAIN purged
        THEN Put(purged, key, [timestamp |-> purged[key].timestamp,
                               count |-> purged[key].count + 1])
        ELSE Put(purged, key, [timestamp |-> current_time, count |-> 1])

\* a duplicate test that already suppresses the copy that reaches the limit
_is_duplicate_message_at_limit(message, cache, cfg, current_time) ==
    LET key == cache_key(message.session_id, message.content.v)
        kept == purge_cache(cache, current_time)
    IN  key \in DOMAIN kept /\ kept[key].count + 1 >= cfg.max_duplicate_count

\* the value _is_duplicate_message returns
_is_duplicate_message(message, cache, cfg, current_time) ==
    LET key == cache_key(message.session_id, message.content.v)
        after == dedup_cache(message, cache, cfg, current_time)
    IN  /\ key \in DOMAIN purge_cache(cache, current_time)
        /\ after[key].count > cfg.max_duplicate_count

-----------------------------------------------------------------------------
(* Numbers: a Python float that is a quotient of two small integers is the  *)
(* reduced fraction [num, den]; comparisons of such quotients with the      *)
(* literals 0.3 .. 0.7 agree with the comparisons of the fractions.         *)

RECURSIVE gcd(_, _)
gcd(a, b) == IF b = 0 THEN a ELSE gcd(b, a % b)

Frac(n, d) == LET g == gcd(n, d) IN [num |-> n \div g, den |-> d \div g]

Gt(x, y) == x.num * y.den > y.num * x.den

Lt(x, y) == x.num * y.den < y.num * x.den

RECURSIVE SumOver(_, _)
SumOver(F(_), s) == IF s = <<>> THEN 0 ELSE F(Head(s)) + SumOver(F, Tail(s))

CountChars(s, chars) == Cardinality({i \in 1..Len(s) : s[i] \in chars})

CountWhere(P(_), s) == Cardinality({i \in 1..Len(s) : P(s[i])})

-----------------------------------------------------------------------------
(* Style Analyzer *)

formal_words ==
    { <<"U+60A8", "U+597D">>,
      <<"U+8BF7", "U+95EE">>,
      <<"U+8C22", "U+8C22">>,
      <<"U+5BF9", "U+4E0D", "U+8D77">>,
      <<"U+8BF7">> }

informal_words ==
    { <<"U+54C8", "U+54C8">>,
      <<"U+563F", "U+563F">>,
      <<"U+54E6", "U+54E6">>,
      <<"U+55EF">>,
      <<"U+54CE">> }

positive_words ==
    { <<"U+597D">>,
      <<"U+5F00", "U+5FC3">>,
      <<"U+5FEB", "U+4E50">>,
      <<"U+559C", "U+6B22">>,
      <<"U+4E0D", "U+9519">>,
      <<"U+68D2">>,
      <<"U+4F18", "U+79C0">> }

negative_words ==
    { <<"U+4E0D", "U+597D">>,
      <<"U+96BE", "U+8FC7">>,
      <<"U+4F24", "U+5FC3">>,
      <<"U+8BA8", "U+538C">>,
      <<"U+7CDF", "U+7CD5">>,
      <<"U+5DEE">>,
      <<"U+5931", "U+671B">> }

greeting_patterns ==
    { <<"U+4F60", "U+597D">>,
      <<"U+60A8", "U+597D">>,
      <<"U+65E9", "U+4E0A", "U+597D">>,
      <<"U+665A", "U+4E0A", "U+597D">>,
      <<"h", "e", "l", "l", "o">>,
      <<"h", "i">> }

request_help_patterns ==
    { <<"U+5E2E", "U+6211">>,
      <<"U+6C42", "U+52A9">>,
      <<"U+9700", "U+8981">>,
      <<"U+600E", "U+4E48">>,
      <<"U+5982", "U+4F55">> }

thanks_patterns ==
    { <<"U+8C22", "U+8C22">>,
      <<"U+611F", "U+8C22">>,
      <<"U+8C22", "U+4E86">>,
      <<"U+9EBB", "U+70E6", "U+4E86">> }

\* the character class [。！？!?.] of re.split
SentenceTerminators == {"U+3002", "U+FF01", "U+FF1F", "!", "?", "."}

\* code points of [\U0001F600-\U0001F6FF] that occur in the model's texts
EmojiChars == {"U+1F600", "U+1F6FF"}

\* re.IGNORECASE, for the letters of the greeting patterns
lower_char(ch) ==
    CASE ch = "H" -> "h" [] ch = "E" -> "e" [] ch = "L" -> "l"
      [] ch = "O" -> "o" [] ch = "I" -> "i" [] OTHER -> ch

lower(s) == [i \in 1..Len(s) |-> lower_char(s[i])]

has_any(content, words) == \E w \in words : contains(content, w)

\* content.endswith(('?', '？')), on the stored content as it is
is_question(content) == endswith(content, <<"?">>) \/ endswith(content, <<"U+FF1F">>)

scene_of(content) ==
    IF has_any(lower(content), greeting_patterns) THEN "greeting"
    ELSE IF has_any(content, request_help_patterns) THEN "request_help"
    ELSE IF has_any(content, thanks_patterns) THEN "thanks"
    ELSE "none"

\* what the analyzers read off one content, tabulated once for the model's texts
TextFacts ==
    [ s \in Texts |->
        [ length |-> Len(s),
          sentences |-> CountChars(s, SentenceTerminators) + 1,
          exclamations |-> CountChars(s, {"!"}) + CountChars(s, {"U+FF01"}),
          questions |-> CountChars(s, {"?"}) + CountChars(s, {"U+FF1F"}),
          emojis |-> CountChars(s, EmojiChars),
          formal |-> has_any(s, formal_words),
          informal |-> has_any(s, informal_words),
          positive |-> has_any(s, positive_words),
          negative |-> has_any(s, negative_words),
          question |-> is_question(s),
          scene |-> scene_of(s) ] ]

_analyze_language_style_graded(batch) ==
    LET n == Len(batch)
        LenOf(msg) == TextFacts[msg.content].length
        SentencesOf(msg) == TextFacts[msg.content].sentences
        ExclOf(msg) == TextFacts[msg.content].exclamations
        QuestOf(msg) == TextFacts[msg.content].questions
        EmojiOf(msg) == TextFacts[msg.content].emojis
        total_length == SumOver(LenOf, batch)
        sentence_count == SumOver(SentencesOf, batch)
        IsFormal(msg) == TextFacts[msg.content].formal
        IsInformal(msg) == TextFacts[msg.content].informal
        formal_count == CountWhere(IsFormal, batch)
        informal_count == CountWhere(IsInformal, batch)
    IN  [ formal_degree |->
              IF formal_count > informal_count THEN Frac(formal_count, n)
              ELSE IF informal_count > formal_count THEN Frac(n - informal_count, n)
              ELSE Frac(5, 10),
          avg_message_length |-> Frac(total_length, n),
          avg_sentence_length |->
              IF sentence_count # 0 THEN Frac(total_length, sentence_count) ELSE Frac(0, 1),
          exclamation_frequency |-> Frac(SumOver(ExclOf, batch), n),
          question_frequency |-> Frac(SumOver(QuestOf, batch), n),
          emoji_frequency |-> Frac(SumOver(EmojiOf, batch), n) ]

_analyze_language_style(batch) ==
    LET n == Len(batch)
        LenOf(msg) == TextFacts[msg.content].length
        SentencesOf(msg) == TextFacts[msg.content].sentences
        ExclOf(msg) == TextFacts[msg.content].exclamations
        QuestOf(msg) == TextFacts[msg.content].questions
        EmojiOf(msg) == TextFacts[msg.content].emojis
        total_length == SumOver(LenOf, batch)
        sentence_count == SumOver(SentencesOf, batch)
        IsFormal(msg) == TextFacts[msg.content].formal
        IsInformal(msg) == TextFacts[msg.content].informal
        formal_count == CountWhere(IsFormal, batch)
        informal_count == CountWhere(IsInformal, batch)
    IN  [ formal_degree |->
              IF formal_count > informal_count THEN Frac(7, 10)
              ELSE IF informal_count > formal_count THEN Frac(3, 10)
              ELSE Frac(5, 10),
          avg_message_length |-> Frac(total_length, n),
          avg_sentence_length |->
              IF sentence_count # 0 THEN Frac(total_length, sentence_count) ELSE Frac(0, 1),
          exclamation_frequency |-> Frac(SumOver(ExclOf, batch), n),
          question_frequency |-> Frac(SumOver(QuestOf, batch), n),
          emoji_frequency |-> Frac(SumOver(EmojiOf, batch), n) ]

_analyze_emotional_style_neither_is_neutral(batch) ==
    LET total == Len(batch)
        has_positive(msg) == TextFacts[msg.content].positive
        has_negative(msg) == TextFacts[msg.content].negative
        IsPositive(msg) == has_positive(msg) /\ ~has_negative(msg)
        IsNegative(msg) == has_negative(msg) /\ ~has_positive(msg)
        IsNeutral(msg) == ~has_positive(msg) /\ ~has_negative(msg)
    IN  [ positive_ratio |-> Frac(CountWhere(IsPositive, batch), total),
          negative_ratio |-> Frac(CountWhere(IsNegative, batch), total),
          neutral_ratio |-> Frac(CountWhere(IsNeutral, batch), total),
          emotion_expression_degree |-> Frac(5, 10) ]

_analyze_emotional_style(batch) ==
    LET total == Len(batch)
        has_positive(msg) == TextFacts[msg.content].positive
        has_negative(msg) == TextFacts[msg.content].negative
        IsPositive(msg) == has_positive(msg) /\ ~has_negative(msg)
        IsNegative(msg) == has_negative(msg) /\ ~has_positive(msg)
        IsNeutral(msg) == has_positive(msg) = has_negative(msg)
    IN  [ positive_ratio |-> Frac(CountWhere(IsPositive, batch), total),
          negative_ratio |-> Frac(CountWhere(IsNegative, batch), total),
          neutral_ratio |-> Frac(CountWhere(IsNeutral, batch), total),
          emotion_expression_degree |-> Frac(5, 10) ]

_analyze_conversation_style_count_marks(batch) ==
    LET n == Len(batch)
        IsReply(msg) == msg.reply_to.t # "NoneType"
        IsQuestion(msg) == TextFacts[msg.content].question
        IsStatement(msg) == TextFacts[msg.content].questions = 0
    IN  [ reply_ratio |-> Frac(CountWhere(IsReply, batch), n),
          question_ratio |-> Frac(CountWhere(IsQuestion, batch), n),
          statement_ratio |-> Frac(CountWhere(IsStatement, batch), n) ]

_analyze_conversation_style(batch) ==
    LET n == Len(batch)
        IsReply(msg) == msg.reply_to.t # "NoneType"
        IsQuestion(msg) == TextFacts[msg.content].question
        IsStatement(msg) == ~TextFacts[msg.content].question
    IN  [ reply_ratio |-> Frac(CountWhere(IsReply, batch), n),
          question_ratio |-> Frac(CountWhere(IsQuestion, batch), n),
          statement_ratio |-> Frac(CountWhere(IsStatement, batch), n) ]

scene_confidence(scene) == IF scene = "request_help" THEN Frac(8, 10) ELSE Frac(9, 10)

RECURSIVE _extract_scene_patterns(_)
_extract_scene_patterns(batch) ==
    IF batch = <<>> THEN <<>>
    ELSE LET content == Head(batch).content
             scene == TextFacts[content].scene
             rest == _extract_scene_patterns(Tail(batch))
         IN  IF scene = "none" THEN rest
             ELSE <<[scene |-> scene, expression |-> content,
                     confidence |-> scene_confidence(scene)]>> \o rest

_analyze_style(user_id, batch, current_time) ==
    IF batch = <<>> THEN EmptyDict
    ELSE [ user_id |-> user_id,
           language_style |-> _analyze_language_style(batch),
           emotional_style |-> _analyze_emotional_style(batch),
           conversation_style |-> _analyze_conversation_style(batch),
           scene_patterns |-> _extract_scene_patterns(batch),
           update_time |-> current_time ]

-----------------------------------------------------------------------------
(* Message Store *)

\* the INSERT of _save_message; id is the AUTOINCREMENT key
insert_message(rows, message) ==
    Append(rows, [ id |-> Len(rows) + 1,
                   user_id |-> message.user_id,
                   content |-> message.content.v,
                   send_time |-> message.send_time,
                   session_id |-> message.session_id,
                   is_group |-> message.is_group,
                   reply_to |-> message.reply_to ])

_get_valid_message_count_one_more(rows, user_id) ==
    Cardinality({i \in 1..Len(rows) : rows[i].user_id = user_id}) + 1

\* SELECT COUNT(*) ... WHERE user_id = ? AND is_valid = TRUE
_get_valid_message_count(rows, user_id) ==
    Cardinality({i \in 1..Len(rows) : rows[i].user_id = user_id})

RECURSIVE newest_first_by_id(_, _, _)
newest_first_by_id(rows, among, k) ==
    IF k = 0 \/ among = {} THEN {<<>>}
    ELSE LET latest == {i \in among : \A o \in among : rows[i].id >= rows[o].id}
         IN  UNION { { <<rows[i]>> \o rest : rest \in newest_first_by_id(rows, among \ {i}, k - 1) }
                     : i \in latest }

\* ORDER BY send_time DESC LIMIT k over the rows at the positions in `among`:
\* every order SQL allows (rows of equal send_time come in any order)
RECURSIVE newest_first(_, _, _)
newest_first(rows, among, k) ==
    IF k = 0 \/ among = {} THEN {<<>>}
    ELSE LET latest == {i \in among : \A o \in among : rows[i].send_time >= rows[o].send_time}
         IN  UNION { { <<rows[i]>> \o rest : rest \in newest_first(rows, among \ {i}, k - 1) }
                     : i \in latest }

\* SELECT ... WHERE user_id = ? AND is_valid = TRUE ORDER BY send_time DESC LIMIT ?
_get_user_messages(rows, user_id, limit) ==
    newest_first(rows, {i \in 1..Len(rows) : rows[i].user_id = user_id}, limit)

-----------------------------------------------------------------------------
(* Statistics Recorder *)

\* INSERT OR REPLACE INTO statistics (metric_name, metric_value, ...) with
\* str(metric_value); a failed write is caught and leaves the table as it was
_update_statistic(stats, metric_name, metric_value, ok) ==
    IF ok THEN Put(stats, metric_name, str_int(metric_value)) ELSE stats

-----------------------------------------------------------------------------
(* Feature Store *)

\* repr() of the float n / d, as CPython prints it: float_repr[d][n + 1], for
\* every quotient the analyzer can produce from the texts of the model
float_repr ==
   <<
      <<"0.0", "1.0", "2.0", "3.0", "4.0", "5.0", "6.0", "7.0", "8.0", "9.0", "10.0", "11.0",
         "12.0", "13.0", "14.0", "15.0", "16.0", "17.0", "18.0", "19.0", "20.0", "21.0",
         "22.0", "23.0", "24.0", "25.0", "26.0", "27.0", "28.0", "29.0", "30.0">>,
      <<"0.0", "0.5", "1.0", "1.5", "2.0", "2.5", "3.0", "3.5", "4.0", "4.5", "5.0", "5.5",
         "6.0", "6.5", "7.0", "7.5", "8.0", "8.5", "9.0", "9.5", "10.0", "10.5", "11.0",
         "11.5", "12.0", "12.5", "13.0", "13.5", "14.0", "14.5", "15.0", "15.5", "16.0",
         "16.5", "17.0", "17.5", "18.0", "18.5", "19.0", "19.5", "20.0", "20.5", "21.0",
         "21.5", "22.0", "22.5", "23.0", "23.5", "24.0", "24.5", "25.0", "25.5", "26.0",
         "26.5", "27.0", "27.5", "28.0", "28.5", "29.0", "29.5", "30.0">>,
      <<"0.0", "0.3333333333333333", "0.6666666666666666", "1.0", "1.3333333333333333",
         "1.6666666666666667", "2.0", "2.3333333333333335", "2.6666666666666665", "3.0",
         "3.3333333333333335", "3.6666666666666665", "4.0", "4.333333333333333",
         "4.666666666666667", "5.0", "5.333333333333333", "5.666666666666667", "6.0",
         "6.333333333333333", "6.666666666666667", "7.0", "7.333333333333333",
         "7.666666666666667", "8.0", "8.333333333333334", "8.666666666666666", "9.0",
         "9.333333333333334", "9.666666666666666", "10.0", "10.333333333333334",
         "10.666666666666666", "11.0", "11.333333333333334", "11.666666666666666", "12.0",
         "12.333333333333334", "12.666666666666666", "13.0", "13.333333333333334",
         "13.666666666666666", "14.0", "14.333333333333334", "14.666666666666666", "15.0",
         "15.333333333333334", "15.666666666666666", "16.0", "16.333333333333332",
         "16.666666666666668", "17.0", "17.333333333333332", "17.666666666666668", "18.0",
         "18.333333333333332", "18.666666666666668", "19.0", "19.333333333333332",
         "19.666666666666668", "20.0", "20.333333333333332", "20.666666666666668", "21.0",
         "21.333333333333332", "21.666666666666668", "22.0", "22.333333333333332",
         "22.666666666666668", "23.0", "23.333333333333332", "23.666666666666668", "24.0",
         "24.333333333333332", "24.666666666666668", "25.0", "25.333333333333332",
         "25.666666666666668", "26.0", "26.333333333333332", "26.666666666666668", "27.0",
         "27.333333333333332", "27.666666666666668", "28.0", "28.333333333333332",
         "28.666666666666668", "29.0", "29.333333333333332", "29.666666666666668", "30.0">>,
      <<"0.0", "0.25", "0.5", "0.75", "1.0", "1.25", "1.5", "1.75", "2.0", "2.25", "2.5",
         "2.75", "3.0", "3.25", "3.5", "3.75", "4.0", "4.25", "4.5", "4.75", "5.0", "5.25",
         "5.5", "5.75", "6.0", "6.25", "6.5", "6.75", "7.0", "7.25", "7.5", "7.75", "8.0",
         "8.25", "8.5", "8.75", "9.0", "9.25", "9.5", "9.75", "10.0", "10.25", "10.5", "10.75",
         "11.0", "11.25", "11.5", "11.75", "12.0", "12.25", "12.5", "12.75", "13.0", "13.25",
         "13.5", "13.75", "14.0", "14.25", "14.5", "14.75", "15.0", "15.25", "15.5", "15.75",
         "16.0", "16.25", "16.5", "16.75", "17.0", "17.25", "17.5", "17.75", "18.0", "18.25",
         "18.5", "18.75", "19.0", "19.25", "19.5", "19.75", "20.0", "20.25", "20.5", "20.75",
         "21.0", "21.25", "21.5", "21.75", "22.0", "22.25", "22.5", "22.75", "23.0", "23.25",
         "23.5", "23.75", "24.0", "24.25", "24.5", "24.75", "25.0", "25.25", "25.5", "25.75",
         "26.0", "26.25", "26.5", "26.75", "27.0", "27.25", "27.5", "27.75", "28.0", "28.25",
         "28.5", "28.75", "29.0", "29.25", "29.5", "29.75", "30.0">>,
      <<"0.0", "0.2", "0.4", "0.6", "0.8", "1.0", "1.2", "1.4", "1.6", "1.8", "2.0", "2.2",
         "2.4", "2.6", "2.8", "3.0", "3.2", "3.4", "3.6", "3.8", "4.0", "4.2", "4.4", "4.6",
         "4.8", "5.0", "5.2", "5.4", "5.6", "5.8", "6.0", "6.2", "6.4", "6.6", "6.8", "7.0",
         "7.2", "7.4", "7.6", "7.8", "8.0", "8.2", "8.4", "8.6", "8.8", "9.0", "9.2", "9.4",
         "9.6", "9.8", "10.0", "10.2", "10.4", "10.6", "10.8", "11.0", "11.2", "11.4", "11.6",
         "11.8", "12.0", "12.2", "12.4", "12.6", "12.8", "13.0", "13.2", "13.4", "13.6",
         "13.8", "14.0", "14.2", "14.4", "14.6", "14.8", "15.0", "15.2", "15.4", "15.6",
         "15.8", "16.0", "16.2", "16.4", "16.6", "16.8", "17.0", "17.2", "17.4", "17.6",
         "17.8", "18.0", "18.2", "18.4", "18.6", "18.8", "19.0", "19.2", "19.4", "19.6",
         "19.8", "20.0", "20.2", "20.4", "20.6", "20.8", "21.0", "21.2", "21.4", "21.6",
         "21.8", "22.0", "22.2", "22.4", "22.6", "22.8", "23.0", "23.2", "23.4", "23.6",
         "23.8", "24.0", "24.2", "24.4", "24.6", "24.8", "25.0", "25.2", "25.4", "25.6",
         "25.8", "26.0", "26.2", "26.4", "26.6", "26.8", "27.0", "27.2", "27.4", "27.6",
         "27.8", "28.0", "28.2", "28.4", "28.6", "28.8", "29.0", "29.2", "29.4", "29.6",
         "29.8", "30.0">>,
      <<"0.0", "0.16666666666666666", "0.3333333333333333", "0.5", "0.6666666666666666",
         "0.8333333333333334", "1.0", "1.1666666666666667", "1.3333333333333333", "1.5",
         "1.6666666666666667", "1.8333333333333333", "2.0", "2.1666666666666665",
         "2.3333333333333335", "2.5", "2.6666666666666665", "2.8333333333333335", "3.0",
         "3.1666666666666665", "3.3333333333333335", "3.5", "3.6666666666666665",
         "3.8333333333333335", "4.0", "4.166666666666667", "4.333333333333333", "4.5",
         "4.666666666666667", "4.833333333333333", "5.0", "5.166666666666667",
         "5.333333333333333", "5.5", "5.666666666666667", "5.833333333333333", "6.0",
         "6.166666666666667", "6.333333333333333", "6.5", "6.666666666666667",
         "6.833333333333333", "7.0", "7.166666666666667", "7.333333333333333", "7.5",
         "7.666666666666667", "7.833333333333333", "8.0", "8.166666666666666",
         "8.333333333333334", "8.5", "8.666666666666666", "8.833333333333334", "9.0",
         "9.166666666666666", "9.333333333333334", "9.5", "9.666666666666666",
         "9.833333333333334", "10.0", "10.166666666666666", "10.333333333333334", "10.5",
         "10.666666666666666", "10.833333333333334", "11.0", "11.166666666666666",
         "11.333333333333334", "11.5", "11.666666666666666", "11.833333333333334", "12.0",
         "12.166666666666666", "12.333333333333334", "12.5", "12.666666666666666",
         "12.833333333333334", "13.0", "13.166666666666666", "13.333333333333334", "13.5",
         "13.666666666666666", "13.833333333333334", "14.0", "14.166666666666666",
         "14.333333333333334", "14.5", "14.666666666666666", "14.833333333333334", "15.0",
         "15.166666666666666", "15.333333333333334", "15.5", "15.666666666666666",
         "15.833333333333334", "16.0", "16.166666666666668", "16.333333333333332", "16.5",
         "16.666666666666668", "16.833333333333332", "17.0", "17.166666666666668",
         "17.333333333333332", "17.5", "17.666666666666668", "17.833333333333332", "18.0",
         "18.166666666666668", "18.333333333333332", "18.5", "18.666666666666668",
         "18.833333333333332", "19.0", "19.166666666666668", "19.333333333333332", "19.5",
         "19.666666666666668", "19.833333333333332", "20.0", "20.166666666666668",
         "20.333333333333332", "20.5", "20.666666666666668", "20.833333333333332", "21.0",
         "21.166666666666668", "21.333333333333332", "21.5", "21.666666666666668",
         "21.833333333333332", "22.0", "22.166666666666668", "22.333333333333332", "22.5",
         "22.666666666666668", "22.833333333333332", "23.0", "23.166666666666668",
         "23.333333333333332", "23.5", "23.666666666666668", "23.833333333333332", "24.0",
         "24.166666666666668", "24.333333333333332", "24.5", "24.666666666666668",
         "24.833333333333332", "25.0", "25.166666666666668", "25.333333333333332", "25.5",
         "25.666666666666668", "25.833333333333332", "26.0", "26.166666666666668",
         "26.333333333333332", "26.5", "26.666666666666668", "26.833333333333332", "27.0",
         "27.166666666666668", "27.333333333333332", "27.5", "27.666666666666668",
         "27.833333333333332", "28.0", "28.166666666666668", "28.333333333333332", "28.5",
         "28.666666666666668", "28.833333333333332", "29.0", "29.166666666666668",
         "29.333333333333332", "29.5", "29.666666666666668", "29.833333333333332", "30.0">>
   >>

\* str(value) of a float
\* repr() of the floats 0.1 .. 0.9, the literals of the analyzer among them
tenths_repr == <<"0.1", "0.2", "0.3", "0.4", "0.5", "0.6", "0.7", "0.8", "0.9">>

\* str(value) of a float
str_float(x) ==
    IF x.den = 10 /\ x.num < 10 THEN tenths_repr[x.num] ELSE float_repr[x.den][x.num + 1]

FloatTexts ==
    {tenths_repr[n] : n \in 1..Len(tenths_repr)}
    \cup UNION {{float_repr[d][n] : n \in 1..Len(float_repr[d])} : d \in 1..Len(float_repr)}

\* float(text) of a text that repr() printed: the float it was printed from
\* (repr prints the shortest text that float() reads back as the same float)
float_table ==
    [ s \in FloatTexts |->
        IF \E n \in 1..Len(tenths_repr) : tenths_repr[n] = s
        THEN Frac(CHOOSE n \in 1..Len(tenths_repr) : tenths_repr[n] = s, 10)
        ELSE LET d == CHOOSE d \in 1..Len(float_repr) :
                         \E n \in 1..Len(float_repr[d]) : float_repr[d][n] = s
                 n == CHOOSE n \in 1..Len(float_repr[d]) : float_repr[d][n] = s
             IN  Frac(n - 1, d) ]

\* float(text) raises ValueError for a text that is no number
float_raises(s) == s \notin FloatTexts

float_str(s) == float_table[s]

\* the rows one loop of _save_style_features writes: one per item of a
\* dimension, named f"{prefix}{feature}", valued str(value)
prefixed_rows(user_id, prefix, dimension, confidence) ==
    [ k \in {<<user_id, prefix \o f>> : f \in DOMAIN dimension} |->
        LET feature == CHOOSE f \in DOMAIN dimension : prefix \o f = k[2]
        IN  [feature_value |-> str_float(dimension[feature]),
             confidence |-> confidence] ]

\* the rows _save_style_features writes for one bundle, keyed by the UNIQUE
\* columns <<user_id, feature_name>>; a later INSERT OR REPLACE wins
feature_rows(user_id, style) ==
    prefixed_rows(user_id, "conversation_", style.conversation_style, Frac(8, 10))
    @@ prefixed_rows(user_id, "emotion_", style.emotional_style, Frac(7, 10))
    @@ prefixed_rows(user_id, "language_", style.language_style, Frac(8, 10))

\* style["language_style"] raises KeyError for the empty bundle
save_raises(style) == "language_style" \notin DOMAIN style

\* table style_features after the committed INSERT OR REPLACE statements
save_rows(table, user_id, style) ==
    LET new == feature_rows(user_id, style)
    IN  [k \in (DOMAIN table) \cup (DOMAIN new) |->
            IF k \in DOMAIN new THEN new[k] ELSE table[k]]

\* SELECT feature_name, feature_value, confidence ... WHERE user_id = ?
user_rows(table, user_id) == {k \in DOMAIN table : k[1] = user_id}

\* the rows the for loop of _get_user_style files under one dimension: the name
\* starts with prefix and with none of the prefixes tested before it
dimension_rows(table, user_id, prefix, tested) ==
    {k \in user_rows(table, user_id) :
        /\ startswith(k[2], prefix)
        /\ \A e \in tested : ~startswith(k[2], e)}

\* style[dimension][feature_name[cut:]] = float(feature_value)
rebuilt_dimension(table, rows, cut) ==
    LET feature(k) == SubSeq(k[2], cut + 1, Len(k[2]))
    IN  [ f \in {feature(k) : k \in rows} |->
            float_str(table[CHOOSE k \in rows : feature(k) = f].feature_value) ]

\* float(feature_value) raises ValueError on some row the loop files
rebuild_raises(table, user_id) ==
    \E k \in dimension_rows(table, user_id, "language_", {})
             \cup dimension_rows(table, user_id, "emotion_", {"language_"})
             \cup dimension_rows(table, user_id, "conversation_", {"language_", "emotion_"}) :
        float_raises(table[k].feature_value)

rebuild_style_emotion_cut_9(table, user_id, current_time) ==
    [ user_id |-> user_id,
      language_style |->
          rebuilt_dimension(table, dimension_rows(table, user_id, "language_", {}), 9),
      emotional_style |->
          rebuilt_dimension(table, dimension_rows(table, user_id, "emotion_", {"language_"}), 9),
      conversation_style |->
          rebuilt_dimension(table, dimension_rows(table, user_id, "conversation_",
                                                  {"language_", "emotion_"}), 13),
      scene_patterns |-> <<>>,
      update_time |-> current_time ]

\* the bundle _get_user_style rebuilds from the rows of one user
rebuild_style(table, user_id, current_time) ==
    [ user_id |-> user_id,
      language_style |->
          rebuilt_dimension(table, dimension_rows(table, user_id, "language_", {}), 9),
      emotional_style |->
          rebuilt_dimension(table, dimension_rows(table, user_id, "emotion_", {"language_"}), 8),
      conversation_style |->
          rebuilt_dimension(table, dimension_rows(table, user_id, "conversation_",
                                                  {"language_", "emotion_"}), 13),
      scene_patterns |-> <<>>,
      update_time |-> current_time ]

-----------------------------------------------------------------------------
(* Prompt Synthesizer *)

falsy_only_empty_dict(style) == style = EmptyDict

\* `if not style`: None and the empty dict are both falsy
falsy(style) == style = PyNone \/ style = EmptyDict

\* a subscript of get_style_prompt raises KeyError
prompt_raises(style) ==
    \/ {"language_style", "emotional_style", "conversation_style"} \ DOMAIN style # {}
    \/ {"formal_degree", "emoji_frequency", "exclamation_frequency"}
           \ DOMAIN style.language_style # {}
    \/ "positive_ratio" \notin DOMAIN style.emotional_style
    \/ /\ ~Gt(style.emotional_style.positive_ratio, Frac(6, 10))
       /\ "negative_ratio" \notin DOMAIN style.emotional_style
    \/ {"reply_ratio", "question_ratio"} \ DOMAIN style.conversation_style # {}

prompt_parts_with_scenes(style) ==
    LET lang_style == style.language_style
        emotion_style == style.emotional_style
        conv_style == style.conversation_style
    IN  <<"imitate this style">>
        \o (IF Gt(lang_style.formal_degree, Frac(7, 10)) THEN <<"- formal polite tone">>
            ELSE IF Lt(lang_style.formal_degree, Frac(3, 10)) THEN <<"- casual relaxed tone">>
            ELSE <<"- moderate tone">>)
        \o (IF Gt(lang_style.emoji_frequency, Frac(5, 10)) THEN <<"- use emoji">> ELSE <<>>)
        \o (IF Gt(lang_style.exclamation_frequency, Frac(3, 10))
            THEN <<"- use exclamation marks">> ELSE <<>>)
        \o (IF Gt(emotion_style.positive_ratio, Frac(6, 10)) THEN <<"- positive attitude">>
            ELSE IF Gt(emotion_style.negative_ratio, Frac(4, 10)) THEN <<"- cautious attitude">>
            ELSE <<>>)
        \o (IF Gt(conv_style.reply_ratio, Frac(5, 10)) THEN <<"- reply to questions">> ELSE <<>>)
        \o (IF Gt(conv_style.question_ratio, Frac(3, 10)) THEN <<"- ask questions">> ELSE <<>>)
        \o (IF style.scene_patterns # <<>> THEN <<"- known scenes">> ELSE <<>>)

prompt_parts_at_threshold(style) ==
    LET lang_style == style.language_style
        emotion_style == style.emotional_style
        conv_style == style.conversation_style
    IN  <<"imitate this style">>
        \o (IF ~Lt(lang_style.formal_degree, Frac(7, 10)) THEN <<"- formal polite tone">>
            ELSE IF ~Gt(lang_style.formal_degree, Frac(3, 10)) THEN <<"- casual relaxed tone">>
            ELSE <<"- moderate tone">>)
        \o (IF ~Lt(lang_style.emoji_frequency, Frac(5, 10)) THEN <<"- use emoji">> ELSE <<>>)
        \o (IF ~Lt(lang_style.exclamation_frequency, Frac(3, 10))
            THEN <<"- use exclamation marks">> ELSE <<>>)
        \o (IF ~Lt(emotion_style.positive_ratio, Frac(6, 10)) THEN <<"- positive attitude">>
            ELSE IF ~Lt(emotion_style.negative_ratio, Frac(4, 10)) THEN <<"- cautious attitude">>
            ELSE <<>>)
        \o (IF ~Lt(conv_style.reply_ratio, Frac(5, 10)) THEN <<"- reply to questions">> ELSE <<>>)
        \o (IF ~Lt(conv_style.question_ratio, Frac(3, 10)) THEN <<"- ask questions">> ELSE <<>>)

\* prompt_parts of get_style_prompt; a part is named by what its line says,
\* and the prompt is the parts joined by "\n" (the empty prompt has no part)
prompt_parts(style) ==
    LET lang_style == style.language_style
        emotion_style == style.emotional_style
        conv_style == style.conversation_style
    IN  <<"imitate this style">>
        \o (IF Gt(lang_style.formal_degree, Frac(7, 10)) THEN <<"- formal polite tone">>
            ELSE IF Lt(lang_style.formal_degree, Frac(3, 10)) THEN <<"- casual relaxed tone">>
            ELSE <<"- moderate tone">>)
        \o (IF Gt(lang_style.emoji_frequency, Frac(5, 10)) THEN <<"- use emoji">> ELSE <<>>)
        \o (IF Gt(lang_style.exclamation_frequency, Frac(3, 10))
            THEN <<"- use exclamation marks">> ELSE <<>>)
        \o (IF Gt(emotion_style.positive_ratio, Frac(6, 10)) THEN <<"- positive attitude">>
            ELSE IF Gt(emotion_style.negative_ratio, Frac(4, 10)) THEN <<"- cautious attitude">>
            ELSE <<>>)
        \o (IF Gt(conv_style.reply_ratio, Frac(5, 10)) THEN <<"- reply to questions">> ELSE <<>>)
        \o (IF Gt(conv_style.question_ratio, Frac(3, 10)) THEN <<"- ask questions">> ELSE <<>>)

EmptyPrompt == <<>>

-----------------------------------------------------------------------------
(* handle_message, one caller thread c at a time through its steps.  The    *)
(* storage failures a step may meet are a parameter: the set of outcomes    *)
(* (TRUE = the statement succeeds) a specification explores.                *)

Callers == {"c1", "c2"}

Idle == [pc |-> "idle", raised |-> FALSE]

Raised == [pc |-> "idle", raised |-> TRUE]

NoCopies ==
    [n |-> 0, first |-> 0, last |-> 0, failed |-> FALSE, cleared |-> FALSE, imported |-> 0]

\* handle_message up to and including _is_duplicate_message
HandleMessage(c, message) ==
    /\ call[c].pc = "idle"
    /\ nCalls' = nCalls + 1
    /\ IF ~_is_valid_message_format(message)
       THEN /\ call' = [call EXCEPT ![c] = Idle]
            /\ UNCHANGED <<message_cache, copies>>
       ELSE LET md == _extract_message_metadata(message)
            IN  IF filter_raises(md)
                THEN /\ call' = [call EXCEPT ![c] = Raised]
                     /\ UNCHANGED <<message_cache, copies>>
                ELSE IF ~_filter_message(md, config)
                THEN /\ call' = [call EXCEPT ![c] = Idle]
                     /\ UNCHANGED <<message_cache, copies>>
                ELSE LET key == cache_key(md.session_id, md.content.v)
                         old == Get(copies, key, NoCopies)
                     IN  /\ message_cache' = dedup_cache(md, message_cache, config, now)
                         /\ copies' = Put(copies, key,
                                [old EXCEPT !.n = old.n + 1,
                                            !.first = IF old.n = 0 THEN now ELSE old.first,
                                            !.last = now])
                         /\ call' = [call EXCEPT ![c] =
                                IF _is_duplicate_message(md, message_cache, config, now)
                                THEN Idle
                                ELSE [pc |-> "save", message |-> md]]
    /\ UNCHANGED <<now, ticks, config, messages, style_rows, statistics,
                   learning_tasks, tasks_lock, style_features, tasks, input>>

\* _save_message: the INSERT and the two statistics; a failed INSERT is caught
SaveMessage(c, InsertOutcomes, StatOutcomes) ==
    /\ call[c].pc = "save"
    /\ LET md == call[c].message
           key == cache_key(md.session_id, md.content.v)
       IN  \E inserted \in InsertOutcomes : \E ok1, ok2 \in StatOutcomes :
            /\ messages' = IF inserted THEN insert_message(messages, md) ELSE messages
            /\ statistics' =
                  IF inserted
                  THEN _update_statistic(
                           _update_statistic(statistics, "total_messages", 1, ok1),
                           "valid_messages", 1, ok2)
                  ELSE statistics
            /\ copies' = IF inserted THEN copies
                         ELSE Put(copies, key, [copies[key] EXCEPT !.failed = TRUE])
            /\ call' = [call EXCEPT ![c] = [pc |-> "trigger", message |-> md]]
    /\ UNCHANGED <<now, ticks, config, message_cache, style_rows, learning_tasks,
                   tasks_lock, style_features, tasks, nCalls, input>>

\* a marker test that never finds the marker
marker_present_never(registry, session_id) == FALSE

\* the marker test of _trigger_learning
marker_present(registry, session_id) == session_id \in DOMAIN registry

\* _trigger_learning: take tasks_lock, look for the marker, count
TriggerLearning(c, CountOutcomes) ==
    /\ call[c].pc = "trigger"
    /\ tasks_lock = "free"
    /\ LET md == call[c].message
       IN  IF marker_present(learning_tasks, md.session_id)
           THEN /\ call' = [call EXCEPT ![c] = Idle]
                /\ UNCHANGED tasks_lock
           ELSE \E ok \in CountOutcomes :
                  LET valid_count ==
                        IF ok THEN _get_valid_message_count(messages, md.user_id) ELSE 0
                  IN  IF valid_count >= config.batch_size
                      THEN /\ tasks_lock' = c
                           /\ call' = [call EXCEPT ![c] = [pc |-> "start", message |-> md]]
                      ELSE /\ call' = [call EXCEPT ![c] = Idle]
                           /\ UNCHANGED tasks_lock
    /\ UNCHANGED <<now, ticks, config, message_cache, messages, style_rows, statistics,
                   learning_tasks, style_features, tasks, nCalls, input, copies>>

\* a started thread
NewTask(user_id, session_id) ==
    [user_id |-> user_id, session_id |-> session_id, pc |-> "fetch", style |-> EmptyDict]

\* a thread started after the critical section was left
StartTask_outside_lock(c) ==
    /\ call[c].pc = "start"
    /\ tasks' = Append(tasks, NewTask(call[c].message.user_id, call[c].message.session_id))
    /\ tasks_lock' = "free"
    /\ call' = [call EXCEPT ![c] = [pc |-> "register", message |-> call[c].message,
                                    task |-> Len(tasks) + 1]]
    /\ UNCHANGED <<now, ticks, config, message_cache, messages, style_rows, statistics,
                   learning_tasks, style_features, nCalls, input, copies>>

\* task.start(), inside the critical section, before the marker is stored
StartTask(c) ==
    /\ call[c].pc = "start"
    /\ tasks' = Append(tasks, NewTask(call[c].message.user_id, call[c].message.session_id))
    /\ call' = [call EXCEPT ![c] = [pc |-> "register", message |-> call[c].message,
                                    task |-> Len(tasks) + 1]]
    /\ UNCHANGED <<now, ticks, config, message_cache, messages, style_rows, statistics,
                   learning_tasks, tasks_lock, style_features, nCalls, input, copies>>

\* self.learning_tasks[session_id] = task, and the end of the with block
RegisterTask(c) ==
    /\ call[c].pc = "register"
    /\ learning_tasks' = Put(learning_tasks, call[c].message.session_id, call[c].task)
    /\ tasks_lock' = "free"
    /\ call' = [call EXCEPT ![c] = Idle]
    /\ UNCHANGED <<now, ticks, config, message_cache, messages, style_rows, statistics,
                   style_features, tasks, nCalls, input, copies>>

-----------------------------------------------------------------------------
(* _batch_learning, the thread of task i *)

\* _get_user_messages (a failed read gives []) and _analyze_style
TaskFetch(i, ReadOutcomes) ==
    /\ tasks[i].pc = "fetch"
    /\ \E ok \in ReadOutcomes :
       \E batch \in IF ok
                    THEN _get_user_messages(messages, tasks[i].user_id, config.batch_size)
                    ELSE {<<>>} :
         tasks' = [tasks EXCEPT ![i] =
                     IF batch = <<>>
                     THEN [@ EXCEPT !.pc = "cleanup"]
                     ELSE [@ EXCEPT !.pc = "save",
                                    !.style = _analyze_style(tasks[i].user_id, batch, now)]]
    /\ UNCHANGED <<now, ticks, config, message_cache, messages, style_rows, statistics,
                   learning_tasks, tasks_lock, style_features, call, nCalls, input, copies>>

\* _save_style_features up to conn.commit(); a failure is caught inside it
TaskSave(i, WriteOutcomes) ==
    /\ tasks[i].pc = "save"
    /\ \E ok \in WriteOutcomes :
         IF ok /\ ~save_raises(tasks[i].style)
         THEN /\ style_rows' = save_rows(style_rows, tasks[i].user_id, tasks[i].style)
              /\ tasks' = [tasks EXCEPT ![i].pc = "cache"]
         ELSE /\ tasks' = [tasks EXCEPT ![i].pc = "stats"]
              /\ UNCHANGED style_rows
    /\ UNCHANGED <<now, ticks, config, message_cache, messages, statistics,
                   learning_tasks, tasks_lock, style_features, call, nCalls, input, copies>>

\* with self.style_lock: self.style_features[user_id] = style
TaskCache(i) ==
    /\ tasks[i].pc = "cache"
    /\ style_features' = Put(style_features, tasks[i].user_id, tasks[i].style)
    /\ tasks' = [tasks EXCEPT ![i].pc = "stats"]
    /\ UNCHANGED <<now, ticks, config, message_cache, messages, style_rows, statistics,
                   learning_tasks, tasks_lock, call, nCalls, input, copies>>

\* _update_statistic("style_updates", 1) and ("last_learning_time", int(time.time()))
TaskStats(i, StatOutcomes) ==
    /\ tasks[i].pc = "stats"
    /\ \E ok1, ok2 \in StatOutcomes :
         statistics' = _update_statistic(
                           _update_statistic(statistics, "style_updates", 1, ok1),
                           "last_learning_time", now, ok2)
    /\ tasks' = [tasks EXCEPT ![i].pc = "cleanup"]
    /\ UNCHANGED <<now, ticks, config, message_cache, messages, style_rows,
                   learning_tasks, tasks_lock, style_features, call, nCalls, input, copies>>

\* a cleanup that leaves the marker in the registry
remove_marker_skipped(registry, session_id) == registry

\* if session_id in self.learning_tasks: del self.learning_tasks[session_id]
remove_marker(registry, session_id) == Del(registry, session_id)

\* finally: with self.tasks_lock: the marker is removed
TaskCleanup(i) ==
    /\ tasks[i].pc = "cleanup"
    /\ tasks_lock = "free"
    /\ learning_tasks' = remove_marker(learning_tasks, tasks[i].session_id)
    /\ tasks' = [tasks EXCEPT ![i] = [@ EXCEPT !.pc = "done", !.style = EmptyDict]]
    /\ UNCHANGED <<now, ticks, config, message_cache, messages, style_rows, statistics,
                   tasks_lock, style_features, call, nCalls, input, copies>>

-----------------------------------------------------------------------------
(* on_plugin_unload *)

JoinTimeout == 5

\* with self.tasks_lock: the loop over learning_tasks.values() begins
UnloadBegin(c) ==
    /\ call[c].pc = "idle"
    /\ tasks_lock = "free"
    /\ tasks_lock' = c
    /\ nCalls' = nCalls + 1
    /\ call' = [call EXCEPT ![c] = [pc |-> "unload_join"]]
    /\ UNCHANGED <<now, ticks, config, message_cache, messages, style_rows, statistics,
                   learning_tasks, style_features, tasks, input, copies>>

\* task.join(timeout=5) for every registered task: each is alive and needs
\* tasks_lock to end, so each join lasts its timeout; then the lock is released
UnloadJoin(c) ==
    /\ call[c].pc = "unload_join"
    /\ now' = now + JoinTimeout * Cardinality(DOMAIN learning_tasks)
    /\ tasks_lock' = "free"
    /\ call' = [call EXCEPT ![c] = [pc |-> "unload_clear"]]
    /\ UNCHANGED <<ticks, config, message_cache, messages, style_rows, statistics,
                   learning_tasks, style_features, tasks, nCalls, input, copies>>

\* message_cache.clear() and style_features.clear()
UnloadClear(c) ==
    /\ call[c].pc = "unload_clear"
    /\ message_cache' = EmptyDict
    /\ style_features' = EmptyDict
    /\ copies' = [k \in DOMAIN copies |-> [copies[k] EXCEPT !.cleared = TRUE]]
    /\ call' = [call EXCEPT ![c] = Idle]
    /\ UNCHANGED <<now, ticks, config, messages, style_rows, statistics,
                   learning_tasks, tasks_lock, tasks, nCalls, input>>

-----------------------------------------------------------------------------
(* The clock *)

TickSteps == {1, 3599}

Tick ==
    /\ ticks < MaxTicks
    /\ \E d \in TickSteps : now' = now + d
    /\ ticks' = ticks + 1
    /\ UNCHANGED <<config, message_cache, messages, style_rows, statistics, learning_tasks,
                   tasks_lock, style_features, tasks, call, nCalls, input, copies>>

-----------------------------------------------------------------------------
(* Message descriptors *)

S1 == <<"s1">>
S2 == <<"s2">>
S_import_s1 == <<"import", "s1">>

Msg(user_id, content, session_id, send_time) ==
    [ user_id |-> user_id, user_name |-> "name", content |-> PyStr(content),
      send_time |-> send_time, session_id |-> session_id,
      is_group |-> FALSE, reply_to |-> PyNone ]

NoInput == EmptyDict

InitWith(cfg, arg) ==
    /\ now = StartTime
    /\ ticks = 0
    /\ config = cfg
    /\ message_cache = EmptyDict
    /\ messages = <<>>
    /\ style_rows = EmptyDict
    /\ statistics = EmptyDict
    /\ learning_tasks = EmptyDict
    /\ tasks_lock = "free"
    /\ style_features = EmptyDict
    /\ tasks = <<>>
    /\ call = [c \in Callers |-> Idle]
    /\ nCalls = 0
    /\ input = arg
    /\ copies = EmptyDict

-----------------------------------------------------------------------------
(* Spec: the live path under concurrency: two caller threads handling       *)
(* messages of one user in two sessions, the analysis tasks they start      *)
(* (whose reads and writes may fail), and unload                            *)

Init == InitWith(DefaultConfig, NoInput)

LiveMessages == {Msg("u1", T_hello, s, now) : s \in {S1, S2}}

TaskStep(i) ==
    \/ TaskFetch(i, BOOLEAN)
    \/ TaskSave(i, BOOLEAN)
    \/ TaskCache(i)
    \/ TaskStats(i, {TRUE})
    \/ TaskCleanup(i)

CallerStep(c) ==
    \/ SaveMessage(c, {TRUE}, {TRUE})
    \/ TriggerLearning(c, {TRUE})
    \/ StartTask(c)
    \/ RegisterTask(c)

UnloadStep(c) ==
    \/ UnloadJoin(c)
    \/ UnloadClear(c)

Next ==
    \/ \E c \in Callers : \E m \in LiveMessages : nCalls < MaxCalls /\ HandleMessage(c, m)
    \/ \E c \in Callers : CallerStep(c)
    \/ \E c \in Callers : nCalls < MaxCalls /\ UnloadBegin(c)
    \/ \E c \in Callers : UnloadStep(c)
    \/ \E i \in 1..Len(tasks) : TaskStep(i)

Spec == Init /\ [][Next]_vars

\* FairSpec: the same operations with every message filling a batch of its
\* own. Every started thread keeps running, a caller inside the critical
\* section of tasks_lock leaves it, and a thread waiting for tasks_lock gets it
\* when it is free again and again
FairConfig == [DefaultConfig EXCEPT !.batch_size = 1]

FairInit == InitWith(FairConfig, NoInput)

FairNext ==
    \/ \E c \in Callers, m \in LiveMessages : nCalls < MaxFairCalls /\ HandleMessage(c, m)
    \/ \E c \in Callers : CallerStep(c)
    \/ \E c \in Callers : nCalls < MaxFairCalls /\ UnloadBegin(c)
    \/ \E c \in Callers : UnloadStep(c)
    \/ \E i \in 1..Len(tasks) : TaskStep(i)

TaskIds == 1..MaxFairCalls

TaskRuns(i) ==
    /\ i <= Len(tasks)
    /\ \/ TaskFetch(i, BOOLEAN)
       \/ TaskSave(i, BOOLEAN)
       \/ TaskCache(i)
       \/ TaskStats(i, {TRUE})

TaskEnds(i) == i <= Len(tasks) /\ TaskCleanup(i)

HoldsLock(c) == StartTask(c) \/ RegisterTask(c) \/ UnloadJoin(c)

FairSpec ==
    /\ FairInit
    /\ [][FairNext]_vars
    /\ \A i \in TaskIds : WF_vars(TaskRuns(i)) /\ SF_vars(TaskEnds(i))
    /\ \A c \in Callers : WF_vars(HoldsLock(c))

-----------------------------------------------------------------------------
(* Claims checked under Spec and FairSpec *)

Sessions == {S1, S2}

InFlight(s) == {i \in 1..Len(tasks) : tasks[i].session_id = s /\ tasks[i].pc # "done"}

\* C1: at most one analysis task per session is in flight in every state, and a
\* _trigger_learning that finds the session's marker starts no task and leaves
\* the registry as it was
C1_AtMostOneInFlight == \A s \in Sessions : Cardinality(InFlight(s)) <= 1

C1_TriggerWithMarkerIsNoOp ==
    \A c \in Callers :
        ( /\ call[c].pc = "trigger"
          /\ call'[c].pc # "trigger"
          /\ call[c].message.session_id \in DOMAIN learning_tasks )
        => /\ tasks' = tasks
           /\ learning_tasks' = learning_tasks
           /\ call'[c].pc = "idle"

C1_SingleFlight == [](C1_AtMostOneInFlight) /\ [][C1_TriggerWithMarkerIsNoOp]_vars

\* C1 witness: one task was ever started, it is still in flight with its marker
\* registered, and more messages of its session than a batch were stored and
\* triggered: a later trigger met the marker and started nothing
C1_Witness ==
    /\ Len(tasks) = 1
    /\ tasks[1].pc # "done"
    /\ tasks[1].session_id \in DOMAIN learning_tasks
    /\ Len(messages) > config.batch_size
    /\ \A i \in 1..Len(messages) : messages[i].session_id = tasks[1].session_id
    /\ \A c \in Callers : call[c].pc = "idle"

\* C6: a registered marker is eventually removed, and only by the final step of
\* the task it stands for, whichever way the task went
C6_MarkerRemovedOnlyByOwnTask ==
    \A s \in Sessions :
        (s \in DOMAIN learning_tasks /\ s \notin DOMAIN learning_tasks')
        => /\ tasks[learning_tasks[s]].pc = "cleanup"
           /\ tasks'[learning_tasks[s]].pc = "done"
           /\ tasks[learning_tasks[s]].session_id = s

C6_MarkerEventuallyRemoved ==
    /\ \A s \in Sessions : (s \in DOMAIN learning_tasks) ~> (s \notin DOMAIN learning_tasks)
    /\ [][C6_MarkerRemovedOnlyByOwnTask]_vars

\* C6 witness: a task that found no messages, and a task that analysed and went
\* through persistence, have both ended with their markers gone
C6_Witness ==
    /\ learning_tasks = EmptyDict
    /\ \E i \in 1..Len(tasks) : tasks[i].pc = "done"
    /\ "style_updates" \in DOMAIN statistics

-----------------------------------------------------------------------------
(* SpecDedup: one caller sending copies of one text in one session while    *)
(* the clock advances, with the batch size of the shipped configuration, so *)
(* that no analysis starts; an INSERT may fail; unload may clear the cache  *)

DedupConfig == [DefaultConfig EXCEPT !.batch_size = default_batch_size]

DupLimits == {0, 1, max_duplicate_count}

DedupConfigs ==
    {[DedupConfig EXCEPT !.max_duplicate_count = m] : m \in DupLimits}

DedupInit == \E cfg \in DedupConfigs : InitWith(cfg, NoInput)

DedupMessages == {Msg("u1", T_hello, S1, now)}

NextDedup ==
    \/ \E m \in DedupMessages : nCalls < MaxDedupCalls /\ HandleMessage("c1", m)
    \/ SaveMessage("c1", BOOLEAN, {TRUE})
    \/ TriggerLearning("c1", {TRUE})
    \/ nCalls < MaxDedupCalls /\ UnloadBegin("c1")
    \/ UnloadStep("c1")
    \/ Tick

SpecDedup == DedupInit /\ [][NextDedup]_vars

-----------------------------------------------------------------------------
(* SpecStats: one caller, every stored message filling a batch of its own,  *)
(* no storage failure: every analysis run persists its result               *)

StatsInit == InitWith(FairConfig, NoInput)

StatsMessages == {Msg("u1", t, S1, now) : t \in {T_hello, T_good}}

StatsTaskStep(i) ==
    \/ TaskFetch(i, {TRUE})
    \/ TaskSave(i, {TRUE})
    \/ TaskCache(i)
    \/ TaskStats(i, {TRUE})
    \/ TaskCleanup(i)

StatsCallerStep ==
    \/ SaveMessage("c1", {TRUE}, {TRUE})
    \/ TriggerLearning("c1", {TRUE})
    \/ StartTask("c1")
    \/ RegisterTask("c1")

NextStats ==
    \/ \E m \in StatsMessages : nCalls < MaxStatCalls /\ HandleMessage("c1", m)
    \/ StatsCallerStep
    \/ \E i \in 1..Len(tasks) : StatsTaskStep(i)

SpecStats == StatsInit /\ [][NextStats]_vars

-----------------------------------------------------------------------------
(* SpecGate: one caller handling one descriptor, drawn together with the    *)
(* filter configuration; every stored message fills a batch of its own, and *)
(* the INSERT, the count and the task's reads and writes may fail           *)

GateConfigs ==
    { FairConfig,
      [FairConfig EXCEPT !.sensitive_words = {<<"b", "a", "d">>}],
      [FairConfig EXCEPT !.blacklist_users = {"u2"}],
      [FairConfig EXCEPT !.whitelist_users = {"u1"}] }

GateTexts ==
    { T_hello, T_hi_q_sp, T_cmd, T_cmd_sp, T_cmd_fw, T_short, T_short_sp, T_url, T_urls,
      T_nourl, T_bad, T_good, T_empty }

WellFormed == {Msg(u, t, S1, StartTime) : u \in {"u1", "u2"}, t \in GateTexts}

Incomplete == {Del(Msg("u1", T_hello, S1, StartTime), f) : f \in required_fields}

Unusable == {[Msg("u1", T_hello, S1, StartTime) EXCEPT !.content = v] : v \in {PyNone, PyInt(5)}}

GateMessages == WellFormed \cup Incomplete \cup Unusable

GateInit == \E cfg \in GateConfigs, m \in GateMessages : InitWith(cfg, m)

GateTaskStep(i) ==
    \/ TaskFetch(i, BOOLEAN)
    \/ TaskSave(i, BOOLEAN)
    \/ TaskCache(i)
    \/ TaskStats(i, BOOLEAN)
    \/ TaskCleanup(i)

GateCallerStep ==
    \/ SaveMessage("c1", BOOLEAN, BOOLEAN)
    \/ TriggerLearning("c1", BOOLEAN)
    \/ StartTask("c1")
    \/ RegisterTask("c1")

NextGate ==
    \/ nCalls < MaxGateCalls /\ HandleMessage("c1", input)
    \/ GateCallerStep
    \/ \E i \in 1..Len(tasks) : GateTaskStep(i)

SpecGate == GateInit /\ [][NextGate]_vars

-----------------------------------------------------------------------------
(* Claims checked under SpecGate *)

Handled == nCalls >= 1 /\ call["c1"].pc = "idle"

IsText(message) == "content" \in DOMAIN message /\ message.content.t = "str"

\* an http:// or https:// (lower case, as the pattern of the gate is written)
\* followed by at least one character that is not white space
C4_HasUrl(t) ==
    \E i \in 1..Len(t) : \E scheme \in {<<"h", "t", "t", "p">>, <<"h", "t", "t", "p", "s">>} :
        LET lead == scheme \o <<":", "/", "/">>
        IN  /\ i + Len(lead) <= Len(t)
            /\ SubSeq(t, i, i + Len(lead) - 1) = lead
            /\ t[i + Len(lead)] \notin Whitespace

C4_Noise(message, cfg) ==
    /\ _is_valid_message_format(message)
    /\ IsText(message)
    /\ LET t == strip(message.content.v)
       IN  \/ \E p \in cfg.command_prefix : Len(p) <= Len(t) /\ SubSeq(t, 1, Len(p)) = p
           \/ Len(t) < cfg.min_message_length
           \/ message.user_id \in cfg.blacklist_users
           \/ (cfg.whitelist_users # {} /\ message.user_id \notin cfg.whitelist_users)
           \/ C4_HasUrl(t)
           \/ \E w \in cfg.sensitive_words :
                 \E i \in 1..Len(t) : i + Len(w) - 1 <= Len(t) /\ SubSeq(t, i, i + Len(w) - 1) = w

\* C4: a message with a configured command prefix after trimming, a trimmed
\* length below min_message_length, a blocked sender, a sender missing from a
\* non-empty allowlist, an http/https URL (the lower-case scheme and :// followed
\* by a character that is not white space), or a configured sensitive word as
\* substring, leaves no row in the Message Store
C4_NoiseIsNotStored == C4_Noise(input, config) => messages = <<>>

\* C4 witness: such a message has been handled and the store is empty
C4_Witness == C4_Noise(input, config) /\ Handled /\ ~call["c1"].raised /\ messages = <<>>

\* C5: handle_message never raises to its caller, whatever the descriptor
C5_NeverRaises == \A c \in Callers : ~call[c].raised

-----------------------------------------------------------------------------
(* Claims checked under SpecDedup and SpecStats *)

RowsOf(key) ==
    Cardinality({i \in 1..Len(messages) :
                    cache_key(messages[i].session_id, messages[i].content) = key})

NoSaveInProgress == \A c \in Callers : call[c].pc # "save"

\* C2 as stated: once more than max_duplicate_count copies of one text have
\* arrived in one session, exactly max_duplicate_count of them are stored
C2_AsStated ==
    \A k \in DOMAIN copies :
        ( /\ copies[k].n > config.max_duplicate_count
          /\ ~copies[k].failed
          /\ NoSaveInProgress )
        => RowsOf(k) = config.max_duplicate_count

\* C2 amended: with max_duplicate_count at least 1, once more than
\* max_duplicate_count copies of one text have arrived in one session, all of
\* them less than one hour after the first and with no unload clearing the
\* cache in between, and every INSERT succeeded, exactly max_duplicate_count of
\* them are stored
C2_DuplicatesCappedWithinWindow ==
    \A k \in DOMAIN copies :
        ( /\ config.max_duplicate_count >= 1
          /\ copies[k].n > config.max_duplicate_count
          /\ copies[k].last - copies[k].first < CacheTTL
          /\ ~copies[k].cleared
          /\ ~copies[k].failed
          /\ NoSaveInProgress )
        => RowsOf(k) = config.max_duplicate_count

\* C2 witness: a copy beyond the limit has arrived inside the window and was dropped
C2_Witness ==
    \E k \in DOMAIN copies :
        /\ config.max_duplicate_count = max_duplicate_count
        /\ copies[k].n > config.max_duplicate_count
        /\ copies[k].last - copies[k].first < CacheTTL
        /\ ~copies[k].cleared
        /\ ~copies[k].failed
        /\ NoSaveInProgress
        /\ RowsOf(k) = config.max_duplicate_count

\* C3: a copy that arrives when the cache entry of its key is one hour old or
\* older is not suppressed: it goes on to storage, and the entry it leaves is a
\* fresh one with count 1 and the arrival time
C3_ExpiredEntryStep ==
    \A k \in DOMAIN copies' :
        ( /\ Get(copies, k, NoCopies).n < copies'[k].n
          /\ k \in DOMAIN message_cache
          /\ now - message_cache[k].timestamp >= CacheTTL )
        => /\ message_cache'[k] = [timestamp |-> now, count |-> 1]
           /\ \E c \in Callers : call[c].pc = "idle" /\ call'[c].pc = "save"

C3_ExpiredEntryDoesNotSuppress == [][C3_ExpiredEntryStep]_vars

\* C3 witness: an earlier copy had left an entry, the latest copy arrived an
\* hour or more later with no unload in between, and the entry now is fresh
C3_Witness ==
    \E k \in DOMAIN copies :
        /\ copies[k].n >= 2
        /\ ~copies[k].cleared
        /\ copies[k].last - copies[k].first >= CacheTTL
        /\ k \in DOMAIN message_cache
        /\ message_cache[k] = [timestamp |-> copies[k].last, count |-> 1]
        /\ \E c \in Callers : call[c].pc = "save"

RunsCompleted == Cardinality({i \in 1..Len(tasks) : tasks[i].pc \in {"cleanup", "done"}})

\* C7: total_messages and valid_messages equal the number of stored messages,
\* and style_updates equals the number of analysis runs that persisted their
\* result
C7_CountersCount ==
    /\ Len(messages) > 0 =>
          /\ Get(statistics, "total_messages", "0") = str_int(Len(messages))
          /\ Get(statistics, "valid_messages", "0") = str_int(Len(messages))
    /\ RunsCompleted > 0 =>
          Get(statistics, "style_updates", "0") = str_int(RunsCompleted)

-----------------------------------------------------------------------------
(* Bulk Importer: import_chat_history *)

DigitChars == {"0", "1", "2", "3", "4", "5", "6", "7", "8", "9"}

DigitValue(ch) == CHOOSE d \in 0..9 : Digit(d) = ch

RECURSIVE Number(_)
Number(s) == IF s = <<>> THEN 0 ELSE 10 * Number(SubSeq(s, 1, Len(s) - 1)) + DigitValue(s[Len(s)])

\* \d{4}[-/]\d{2}[-/]\d{2}\s\d{2}:\d{2}:\d{2}
timestamp_shape(g) ==
    /\ Len(g) = 19
    /\ \A i \in {1, 2, 3, 4, 6, 7, 9, 10, 12, 13, 15, 16, 18, 19} : g[i] \in DigitChars
    /\ g[5] \in {"-", "/"}
    /\ g[8] \in {"-", "/"}
    /\ g[11] \in Whitespace
    /\ g[14] = ":"
    /\ g[17] = ":"

\* re.search(r'^\[?(...)\]?', line): group 1, or the empty text when there is no match
timestamp_match(line) ==
    LET off == IF Len(line) >= 1 /\ line[1] = "[" THEN 1 ELSE 0
        g == SubSeq(line, off + 1, off + 19)
    IN  IF Len(line) >= off + 19 /\ timestamp_shape(g) THEN g ELSE <<>>

is_leap(y) == (y % 4 = 0 /\ y % 100 # 0) \/ y % 400 = 0

days_in_month(y, m) ==
    IF m = 2 THEN (IF is_leap(y) THEN 29 ELSE 28)
    ELSE IF m \in {4, 6, 9, 11} THEN 30 ELSE 31

\* strptime(group, '%Y-%m-%d %H:%M:%S') raises ValueError
strptime_raises(g) ==
    LET y == Number(SubSeq(g, 1, 4))
        m == Number(SubSeq(g, 6, 7))
        d == Number(SubSeq(g, 9, 10))
    IN  ~ ( /\ g[5] = "-"
            /\ g[8] = "-"
            /\ y >= 1
            /\ m \in 1..12
            /\ d >= 1
            /\ d <= days_in_month(y, m)
            /\ Number(SubSeq(g, 12, 13)) <= 23
            /\ Number(SubSeq(g, 15, 16)) <= 59
            /\ Number(SubSeq(g, 18, 19)) <= 59 )

\* days from 1970-01-01 to the civil date
days_from_civil(y, m, d) ==
    LET yy == IF m <= 2 THEN y - 1 ELSE y
        era == yy \div 400
        yoe == yy - era * 400
        mp == IF m > 2 THEN m - 3 ELSE m + 9
        doy == (153 * mp + 2) \div 5 + d - 1
        doe == yoe * 365 + yoe \div 4 - yoe \div 100 + doy
    IN  era * 146097 + doe - 719468

\* int(strptime(...).timestamp()), the local zone being UTC
strptime_timestamp(g) ==
    days_from_civil(Number(SubSeq(g, 1, 4)), Number(SubSeq(g, 6, 7)), Number(SubSeq(g, 9, 10)))
        * 86400
    + Number(SubSeq(g, 12, 13)) * 3600 + Number(SubSeq(g, 15, 16)) * 60
    + Number(SubSeq(g, 18, 19))

NewResult(current_time) ==
    [ total_lines |-> 0, imported_lines |-> 0, filtered_lines |-> 0, duplicate_lines |-> 0,
      error_lines |-> 0, start_time |-> current_time, end_time |-> 0 ]

\* the outer except of import_chat_history
outer_except(result) ==
    [result EXCEPT !.error_lines = @ + result.total_lines - result.imported_lines
                                     - result.filtered_lines - result.duplicate_lines]

\* the state of a caller that import_chat_history has returned to; reached is
\* the number of lines the loop has visited
Returned(result, reached, args) ==
    [pc |-> "idle", raised |-> FALSE, result |-> result, reached |-> reached, args |-> args]

\* import_chat_history up to the loop: the result record, open and readlines
ImportBegin(c, args) ==
    /\ call[c].pc = "idle"
    /\ nCalls' = nCalls + 1
    /\ call' = [call EXCEPT ![c] =
          IF ~args.readable
          THEN Returned(outer_except(NewResult(now)), 0, args)
          ELSE [ pc |-> "import_line", args |-> args, i |-> 0,
                 result |-> [NewResult(now) EXCEPT !.total_lines = Len(args.lines)] ]]
    /\ UNCHANGED <<now, ticks, config, message_cache, messages, style_rows, statistics,
                   learning_tasks, tasks_lock, style_features, tasks, input, copies>>

\* one iteration of the loop over the lines
ImportLine(c, InsertOutcomes, StatOutcomes) ==
    /\ call[c].pc = "import_line"
    /\ call[c].i < Len(call[c].args.lines)
    /\ LET args == call[c].args
           i == call[c].i
           result == call[c].result
           line == strip(args.lines[i + 1])
           group == timestamp_match(line)
           timestamp == IF group # <<>> THEN strptime_timestamp(group)
                        ELSE now - (Len(args.lines) - i) * 60
           message == [ user_id |-> args.user_id, user_name |-> args.user_name,
                        content |-> PyStr(line), send_time |-> timestamp,
                        session_id |-> args.session_id, is_group |-> FALSE,
                        reply_to |-> PyNone ]
           md == _extract_message_metadata(message)
           key == import_cache_key(args.session_id, line)
           continue(r) == [call EXCEPT ![c] = [@ EXCEPT !.i = i + 1, !.result = r]]
       IN  IF line = <<>>
           THEN /\ call' = continue(result)
                /\ UNCHANGED <<message_cache, messages, statistics, copies>>
           ELSE IF group # <<>> /\ strptime_raises(group)
           THEN /\ call' = [call EXCEPT ![c] = Returned(outer_except(result), i + 1, args)]
                /\ UNCHANGED <<message_cache, messages, statistics, copies>>
           ELSE IF ~_is_valid_message_format(message)
           THEN /\ call' = continue([result EXCEPT !.error_lines = @ + 1])
                /\ UNCHANGED <<message_cache, messages, statistics, copies>>
           ELSE IF ~_filter_message(md, config)
           THEN /\ call' = continue([result EXCEPT !.filtered_lines = @ + 1])
                /\ UNCHANGED <<message_cache, messages, statistics, copies>>
           ELSE /\ copies' = Put(copies, key,
                      [Get(copies, key, NoCopies) EXCEPT !.imported = @ + 1])
                /\ IF key \in DOMAIN message_cache
                   THEN /\ call' = continue([result EXCEPT !.duplicate_lines = @ + 1])
                        /\ UNCHANGED <<message_cache, messages, statistics>>
                   ELSE /\ message_cache' = Put(message_cache, key, [timestamp |-> now, count |-> 1])
                        /\ \E inserted \in InsertOutcomes : \E ok1, ok2 \in StatOutcomes :
                             /\ messages' = IF inserted THEN insert_message(messages, md)
                                            ELSE messages
                             /\ statistics' =
                                   IF inserted
                                   THEN _update_statistic(
                                            _update_statistic(statistics, "total_messages", 1, ok1),
                                            "valid_messages", 1, ok2)
                                   ELSE statistics
                        /\ call' = continue([result EXCEPT !.imported_lines = @ + 1])
    /\ UNCHANGED <<now, ticks, config, style_rows, learning_tasks, tasks_lock,
                   style_features, tasks, nCalls, input>>

\* after the loop: the synchronous analysis of the newest imported_lines
\* messages of the user, then end_time and the return
ImportLearn(c, ReadOutcomes, WriteOutcomes) ==
    /\ call[c].pc = "import_line"
    /\ call[c].i = Len(call[c].args.lines)
    /\ LET args == call[c].args
           result == call[c].result
       IN  /\ \E read \in ReadOutcomes : \E written \in WriteOutcomes :
                \E batch \in (IF read /\ result.imported_lines > 0
                              THEN _get_user_messages(messages, args.user_id, result.imported_lines)
                              ELSE {<<>>}) :
                  LET style == _analyze_style(args.user_id, batch, now)
                  IN  IF batch = <<>> \/ save_raises(style) \/ ~written
                      THEN UNCHANGED <<style_rows, style_features>>
                      ELSE /\ style_rows' = save_rows(style_rows, args.user_id, style)
                           /\ style_features' = Put(style_features, args.user_id, style)
           /\ call' = [call EXCEPT ![c] =
                 Returned([result EXCEPT !.end_time = now], call[c].i, args)]
    /\ UNCHANGED <<now, ticks, config, message_cache, messages, statistics, learning_tasks,
                   tasks_lock, tasks, nCalls, input, copies>>

-----------------------------------------------------------------------------
(* SpecImport: one caller importing a transcript drawn at the start, once   *)
(* or again, with live messages before, between or after, and the clock     *)
(* advancing; the batch size is that of the shipped configuration           *)

NL == <<"\n">>

Transcripts ==
    { <<T_hello \o NL, T_good \o NL>>,
      <<T_hello \o NL, NL, T_good \o NL>>,
      <<T_hello \o NL, T_hello \o NL, T_cmd \o NL>>,
      <<T_ts_dash \o NL, T_good \o NL>>,
      <<T_ts_slash \o NL, T_good \o NL>>,
      <<T_hello \o NL, T_ts_range \o NL, T_good>>,
      <<>> }

ImportArgs ==
    { [lines |-> l, user_id |-> "u1", user_name |-> "name", session_id |-> S1,
       readable |-> TRUE] : l \in Transcripts }
    \cup
    { [lines |-> <<>>, user_id |-> "u1", user_name |-> "name", session_id |-> S1,
       readable |-> FALSE] }

ImportLiveMessages == {Msg("u1", T_hello, s, now) : s \in {S1, S_import_s1}}

ImportInit == \E args \in ImportArgs : InitWith(DedupConfig, args)

NextImport ==
    \/ \E m \in ImportLiveMessages : nCalls < MaxImportCalls /\ HandleMessage("c1", m)
    \/ SaveMessage("c1", {TRUE}, {TRUE})
    \/ TriggerLearning("c1", {TRUE})
    \/ nCalls < MaxImportCalls /\ ImportBegin("c1", input)
    \/ ImportLine("c1", BOOLEAN, {TRUE})
    \/ ImportLearn("c1", BOOLEAN, BOOLEAN)
    \/ Tick

SpecImport == ImportInit /\ [][NextImport]_vars

-----------------------------------------------------------------------------
(* Claims checked under SpecImport *)

ImportReturned(c) == call[c].pc = "idle" /\ "result" \in DOMAIN call[c]

\* C8: the tally returned by import_chat_history satisfies imported_lines +
\* filtered_lines + duplicate_lines + error_lines = total_lines, with
\* imported_lines <= total_lines
C8_TallyAddsUp ==
    \A c \in Callers :
        ImportReturned(c) =>
            LET r == call[c].result
            IN  /\ r.imported_lines + r.filtered_lines + r.duplicate_lines + r.error_lines
                     = r.total_lines
                /\ r.imported_lines <= r.total_lines

Unconvertible(lines) ==
    {i \in 1..Len(lines) :
        LET g == timestamp_match(strip(lines[i]))
        IN  g # <<>> /\ strptime_raises(g)}

\* C9: a line whose leading timestamp matches the pattern but cannot be
\* converted is counted as one error, and every later line is still visited
C9_FailureIsPerLine ==
    \A c \in Callers :
        (ImportReturned(c) /\ call[c].args.readable) =>
            /\ call[c].reached = Len(call[c].args.lines)
            /\ call[c].result.error_lines <= Cardinality(Unconvertible(call[c].args.lines))

\* C10: no cache key is used both by _is_duplicate_message for a live message
\* and by import_chat_history for a line
C10_KeysNeverCollide ==
    \A k \in DOMAIN copies : ~(copies[k].n > 0 /\ copies[k].imported > 0)

-----------------------------------------------------------------------------
(* Claims about shutdown, checked under Spec *)

UnloadReturns(c) == call[c].pc = "unload_clear" /\ call'[c].pc = "idle"

\* C11: when on_plugin_unload returns, the task registry, the dedup cache and
\* the feature cache are all empty, whether or not the tasks have ended
C11_UnloadReturnStep ==
    \A c \in Callers :
        UnloadReturns(c) =>
            /\ learning_tasks' = EmptyDict
            /\ message_cache' = EmptyDict
            /\ style_features' = EmptyDict

C11_UnloadLeavesNothing == [][C11_UnloadReturnStep]_vars

-----------------------------------------------------------------------------
(* get_style_prompt and the two halves of the Feature Store, one caller     *)
(* thread c at a time through its steps                                     *)

VarsButStyle ==
    <<now, ticks, config, message_cache, messages, statistics, learning_tasks, tasks_lock,
      tasks, input, copies>>

\* what get_style_prompt does with the style _get_user_style handed it
Prompted(user_id, style, source) ==
    IF falsy(style)
    THEN [pc |-> "idle", raised |-> FALSE, op |-> "get_style_prompt", user_id |-> user_id,
          style |-> style, source |-> source, prompt |-> EmptyPrompt]
    ELSE IF prompt_raises(style)
    THEN [pc |-> "idle", raised |-> TRUE, op |-> "get_style_prompt", user_id |-> user_id,
          style |-> style, source |-> source]
    ELSE [pc |-> "idle", raised |-> FALSE, op |-> "get_style_prompt", user_id |-> user_id,
          style |-> style, source |-> source, prompt |-> prompt_parts(style)]

\* get_style_prompt up to the cache lookup of _get_user_style
GetStylePrompt(c, user_id) ==
    /\ call[c].pc = "idle"
    /\ nCalls' = nCalls + 1
    /\ call' = [call EXCEPT ![c] =
                  IF user_id \in DOMAIN style_features
                  THEN Prompted(user_id, style_features[user_id], "cache")
                  ELSE [pc |-> "style_read", user_id |-> user_id]]
    /\ UNCHANGED <<VarsButStyle, style_rows, style_features>>

\* the SELECT of _get_user_style and the loop over its rows
GetUserStyleRead(c, ReadOutcomes) ==
    /\ call[c].pc = "style_read"
    /\ \E ok \in ReadOutcomes :
         LET user_id == call[c].user_id
         IN  call' = [call EXCEPT ![c] =
                        IF ~ok THEN Prompted(user_id, PyNone, "failed")
                        ELSE IF user_rows(style_rows, user_id) = {}
                        THEN Prompted(user_id, PyNone, "none")
                        ELSE IF rebuild_raises(style_rows, user_id)
                        THEN Prompted(user_id, PyNone, "failed")
                        ELSE [pc |-> "style_cache", user_id |-> user_id,
                              style |-> rebuild_style(style_rows, user_id, now)]]
    /\ UNCHANGED <<VarsButStyle, style_rows, style_features, nCalls>>

\* with self.style_lock: self.style_features[user_id] = style, and the rest of
\* get_style_prompt
GetUserStyleCache(c) ==
    /\ call[c].pc = "style_cache"
    /\ style_features' = Put(style_features, call[c].user_id, call[c].style)
    /\ call' = [call EXCEPT ![c] = Prompted(call[c].user_id, call[c].style, "rows")]
    /\ UNCHANGED <<VarsButStyle, style_rows, nCalls>>

\* what a call of _save_style_features leaves with its caller (it returns None)
Saved(user_id, style, ok) ==
    [pc |-> "idle", raised |-> FALSE, op |-> "_save_style_features", user_id |-> user_id,
     style |-> style, ok |-> ok]

\* _save_style_features called on its own
SaveStyleFeatures(c, user_id, style) ==
    /\ call[c].pc = "idle"
    /\ nCalls' = nCalls + 1
    /\ call' = [call EXCEPT ![c] = [pc |-> "features_write", user_id |-> user_id,
                                    style |-> style]]
    /\ UNCHANGED <<VarsButStyle, style_rows, style_features>>

\* the INSERT OR REPLACE statements up to conn.commit()
FeaturesWrite(c, WriteOutcomes) ==
    /\ call[c].pc = "features_write"
    /\ \E ok \in WriteOutcomes :
         IF ok /\ ~save_raises(call[c].style)
         THEN /\ style_rows' = save_rows(style_rows, call[c].user_id, call[c].style)
              /\ call' = [call EXCEPT ![c].pc = "features_cache"]
         ELSE /\ call' = [call EXCEPT ![c] = Saved(call[c].user_id, call[c].style, FALSE)]
              /\ UNCHANGED style_rows
    /\ UNCHANGED <<VarsButStyle, style_features, nCalls>>

\* with self.style_lock: self.style_features[user_id] = style
FeaturesCache(c) ==
    /\ call[c].pc = "features_cache"
    /\ style_features' = Put(style_features, call[c].user_id, call[c].style)
    /\ call' = [call EXCEPT ![c] = Saved(call[c].user_id, call[c].style, TRUE)]
    /\ UNCHANGED <<VarsButStyle, style_rows, nCalls>>

-----------------------------------------------------------------------------
(* SpecRoundTrip: caller c1 saves bundles the analyzer made, caller c2 asks *)
(* for the style and unloads the plugin, one call after the other; a write  *)
(* or a read may fail                                                       *)

MaxRoundTripCalls == 4

RoundTripUsers == {"u1", "u2"}

Reply(message) == [message EXCEPT !.reply_to = PyInt(1)]

\* batches as _get_user_messages hands them to the analyzer
RoundTripBatches(user_id) ==
    LET row(m) == insert_message(<<>>, m)[1]
        hello == row(Msg(user_id, T_hello, S1, StartTime))
        hi_q == row(Msg(user_id, T_hi_q, S1, StartTime))
        bad == row(Reply(Msg(user_id, T_bad, S1, StartTime)))
    IN  { <<hello>>, <<hi_q, bad>>, <<hello, hi_q, bad>> }

RoundTripBundles(user_id) ==
    {EmptyDict} \cup
    { _analyze_style(user_id, batch, StartTime) : batch \in RoundTripBatches(user_id) }

AllIdle == \A c \in Callers : call[c].pc = "idle"

RoundTripInit == InitWith(DefaultConfig, NoInput)

RoundTripCall ==
    /\ AllIdle
    /\ nCalls < MaxRoundTripCalls
    /\ \/ \E user_id \in RoundTripUsers :
            \E style \in RoundTripBundles(user_id) : SaveStyleFeatures("c1", user_id, style)
       \/ \E user_id \in RoundTripUsers : GetStylePrompt("c2", user_id)
       \/ UnloadBegin("c2")

NextRoundTrip ==
    \/ RoundTripCall
    \/ FeaturesWrite("c1", BOOLEAN)
    \/ FeaturesCache("c1")
    \/ GetUserStyleRead("c2", BOOLEAN)
    \/ GetUserStyleCache("c2")
    \/ UnloadJoin("c2")
    \/ UnloadClear("c2")

SpecRoundTrip == RoundTripInit /\ [][NextRoundTrip]_vars

Dimensions == {"language_style", "emotional_style", "conversation_style"}

SameDimensions(a, b) ==
    /\ Dimensions \subseteq DOMAIN a
    /\ Dimensions \subseteq DOMAIN b
    /\ \A d \in Dimensions : a[d] = b[d]

IsSaved(r) == r.pc = "idle" /\ "op" \in DOMAIN r /\ r.op = "_save_style_features" /\ r.ok

GetReturns(c) ==
    /\ call[c].pc \in {"idle", "style_read", "style_cache"}
    /\ call'[c].pc = "idle"
    /\ call'[c] # call[c]
    /\ "op" \in DOMAIN call'[c]
    /\ call'[c].op = "get_style_prompt"

\* C12: a _get_user_style that follows a successful _save_style_features of
\* the same user, with no read failure, returns the three dimensions of the
\* saved bundle, field for field, from the cache and from the rows alike
C12_RoundTripStep ==
    ( /\ GetReturns("c2")
      /\ IsSaved(call["c1"])
      /\ call'["c2"].user_id = call["c1"].user_id
      /\ call'["c2"].source # "failed" )
    => SameDimensions(call'["c2"].style, call["c1"].style)
C12_RoundTrip == [][C12_RoundTripStep]_vars

\* a bundle with a ratio of one third came back from the rows after an unload
\* had cleared the cache
C12_RebuiltFromRows ==
    /\ IsSaved(call["c1"])
    /\ call["c2"].pc = "idle" /\ "op" \in DOMAIN call["c2"]
    /\ call["c2"].op = "get_style_prompt"
    /\ call["c2"].user_id = call["c1"].user_id
    /\ call["c2"].source = "rows"
    /\ call["c1"].style.conversation_style.question_ratio = Frac(1, 3)
    /\ SameDimensions(call["c2"].style, call["c1"].style)
    /\ call["c2"].style # call["c1"].style

-----------------------------------------------------------------------------
(* SpecScenario: on an empty store caller c1 feeds batch_size distinct      *)
(* valid messages of user u1 in session s1, one call after the other, while *)
(* caller c2 asks for style prompts and unloads the plugin; storage works   *)

MaxScenarioCalls == 5

ScenarioTexts == {T_hello, T_hi_q, T_bad, T_good}

Stored(t) == \E i \in 1..Len(messages) : messages[i].content = t

ScenarioInit == InitWith(DefaultConfig, NoInput)

ScenarioFeed ==
    /\ Len(messages) < config.batch_size
    /\ \E t \in ScenarioTexts : ~Stored(t) /\ HandleMessage("c1", Msg("u1", t, S1, now))

ScenarioTaskStep(i) ==
    \/ TaskFetch(i, {TRUE})
    \/ TaskSave(i, {TRUE})
    \/ TaskCache(i)
    \/ TaskStats(i, {TRUE})
    \/ TaskCleanup(i)

NextScenario ==
    \/ ScenarioFeed
    \/ SaveMessage("c1", {TRUE}, {TRUE})
    \/ TriggerLearning("c1", {TRUE})
    \/ StartTask("c1")
    \/ RegisterTask("c1")
    \/ \E i \in 1..Len(tasks) : ScenarioTaskStep(i)
    \/ \E user_id \in {"u1", "u2"} : nCalls < MaxScenarioCalls /\ GetStylePrompt("c2", user_id)
    \/ GetUserStyleRead("c2", {TRUE})
    \/ GetUserStyleCache("c2")
    \/ nCalls < MaxScenarioCalls /\ UnloadBegin("c2")
    \/ UnloadJoin("c2")
    \/ UnloadClear("c2")

SpecScenario == ScenarioInit /\ [][NextScenario]_vars

AnalysisFinished == Len(tasks) = 1 /\ tasks[1].pc = "done"

\* C13: fed one after the other with storage that works, the messages launch
\* no analysis before the valid count reaches batch_size and exactly one when
\* it does; once that analysis is past its save, a style of the user with all
\* three dimensions is persisted
C13_OneLaunch ==
    /\ Len(tasks) <= 1
    /\ Len(tasks) = 1 => Len(messages) = config.batch_size
    /\ (call["c1"].pc = "idle" /\ Len(messages) = config.batch_size) => Len(tasks) = 1
    /\ (Len(tasks) = 1 /\ tasks[1].pc \in {"cache", "stats", "cleanup", "done"}) =>
          /\ user_rows(style_rows, "u1") # {}
          /\ ~rebuild_raises(style_rows, "u1")
          /\ ~prompt_raises(rebuild_style(style_rows, "u1", now))

\* every get_style_prompt for the user that returns after the analysis has
\* finished returns a text that is not empty
C13_PromptAfterAnalysis ==
    \A c \in Callers :
        (GetReturns(c) /\ call'[c].user_id = "u1" /\ AnalysisFinished)
        => ~call'[c].raised /\ call'[c].prompt # EmptyPrompt

C13_BatchScenario == [](C13_OneLaunch) /\ [][C13_PromptAfterAnalysis]_vars

\* after the analysis has finished and an unload has emptied the cache, a
\* get_style_prompt rebuilt the style from the rows and returned a prompt
C13_PromptFromRows ==
    /\ AnalysisFinished
    /\ Len(messages) = config.batch_size
    /\ call["c2"].pc = "idle" /\ "op" \in DOMAIN call["c2"]
    /\ call["c2"].user_id = "u1"
    /\ call["c2"].source = "rows"
    /\ ~call["c2"].raised
    /\ Len(call["c2"].prompt) >= 2

-----------------------------------------------------------------------------
(* SpecBootstrap: caller c1 imports the transcript drawn at the start, once *)
(* or again, while caller c2 asks for the user's style prompt; storage      *)
(* works                                                                    *)

MaxBootstrapCalls == 3

NextBootstrap ==
    \/ nCalls < MaxBootstrapCalls /\ ImportBegin("c1", input)
    \/ ImportLine("c1", {TRUE}, {TRUE})
    \/ ImportLearn("c1", {TRUE}, {TRUE})
    \/ nCalls < MaxBootstrapCalls /\ GetStylePrompt("c2", input.user_id)
    \/ GetUserStyleRead("c2", {TRUE})
    \/ GetUserStyleCache("c2")

SpecBootstrap == ImportInit /\ [][NextBootstrap]_vars

\* C14 as stated: when import_chat_history has returned a tally with
\* imported_lines >= 1, a style of the user is persisted and cached, so that
\* get_style_prompt has it, and no marker is registered
C14_StyleOnReturn ==
    \A c \in Callers :
        (ImportReturned(c) /\ call[c].result.imported_lines >= 1) =>
            /\ user_rows(style_rows, call[c].args.user_id) # {}
            /\ call[c].args.user_id \in DOMAIN style_features
            /\ learning_tasks = EmptyDict

-----------------------------------------------------------------------------
(* SpecReject: caller c1 handles, one after the other, the descriptors      *)
(* drawn at the start, accepted and rejected ones in any order, under a     *)
(* configuration with a blacklist and a sensitive word or with a whitelist; *)
(* every stored message fills a batch of its own                            *)

RejectFeedLen == 2

RejectConfigs ==
    { [FairConfig EXCEPT !.sensitive_words = {<<"b", "a", "d">>}, !.blacklist_users = {"u2"}],
      [FairConfig EXCEPT !.whitelist_users = {"u1"}] }

AcceptedMessages == {Msg("u1", t, S1, StartTime) : t \in {T_hello, T_good, T_nourl}}

\* descriptors the validity check or one filter of the gate rejects: a
\* required field missing, a command, a text too short, a link, a user who is
\* blacklisted or not whitelisted, a sensitive word
RejectedMessages(cfg) ==
    Incomplete
    \cup {Msg("u1", t, S1, StartTime) :
            t \in {T_cmd, T_cmd_sp, T_cmd_fw, T_short, T_short_sp, T_empty, T_url, T_urls}}
    \cup {Msg("u2", T_hello, S1, StartTime)}
    \cup (IF cfg.sensitive_words # {} THEN {Msg("u1", T_bad, S1, StartTime)} ELSE {})

RejectInit ==
    \E cfg \in RejectConfigs :
        \E feed \in [1..RejectFeedLen -> AcceptedMessages \cup RejectedMessages(cfg)] :
            InitWith(cfg, feed)

NextReject ==
    \/ nCalls < Len(input) /\ HandleMessage("c1", input[nCalls + 1])
    \/ SaveMessage("c1", {TRUE}, {TRUE})
    \/ TriggerLearning("c1", {TRUE})
    \/ StartTask("c1")
    \/ RegisterTask("c1")
    \/ \E i \in 1..Len(tasks) : ScenarioTaskStep(i)

SpecReject == RejectInit /\ [][NextReject]_vars

\* C15: the handle_message call of a descriptor that the validity check or a
\* filter of the gate rejects returns without raising and leaves the Message
\* Store, the dedup cache, the task registry and its tasks, the feature cache,
\* the feature rows and the statistics as they were
C15_RejectedStep ==
    ( /\ call["c1"].pc = "idle"
      /\ nCalls' = nCalls + 1
      /\ input[nCalls + 1] \in RejectedMessages(config) )
    => /\ UNCHANGED <<messages, message_cache, copies, learning_tasks, tasks, tasks_lock,
                      style_features, style_rows, statistics>>
       /\ call'["c1"] = Idle
C15_RejectedHasNoEffect == [][C15_RejectedStep]_vars

\* a rejected descriptor was handled after a stored one, while the analysis of
\* the stored one had filled the feature cache and the statistics
C15_RejectedAfterStored ==
    /\ nCalls = 2
    /\ call["c1"].pc = "idle"
    /\ input[1] \in AcceptedMessages
    /\ input[2] \in RejectedMessages(config)
    /\ Len(messages) = 1
    /\ DOMAIN style_features = {"u1"}
    /\ DOMAIN message_cache # {}
    /\ DOMAIN statistics # {}

-----------------------------------------------------------------------------
(* Claims checked under SpecRoundTrip: get_style_prompt without a style *)

\* C16: a get_style_prompt that finds no cache entry and then no rows of the
\* user, or whose read fails, returns the empty text, raises nothing and
\* leaves the feature cache as it was
C16_NoStyleStep ==
    \A c \in Callers :
        (call[c].pc = "style_read" /\ call'[c] # call[c]) =>
            /\ user_rows(style_rows, call[c].user_id) = {} => call'[c].pc = "idle"
            /\ call'[c].pc = "idle" =>
                  /\ call'[c].source \in {"none", "failed"}
                  /\ ~call'[c].raised
                  /\ call'[c].prompt = EmptyPrompt
                  /\ style_features' = style_features
                  /\ style_rows' = style_rows
C16_NoStyleNoPrompt == [][C16_NoStyleStep]_vars

\* the read of a user whose rows are stored failed after an unload had
\* emptied the cache: the call returned the empty text and cached nothing
C16_FailedRead ==
    /\ call["c2"].pc = "idle" /\ "op" \in DOMAIN call["c2"]
    /\ call["c2"].op = "get_style_prompt"
    /\ call["c2"].source = "failed"
    /\ call["c2"].prompt = EmptyPrompt
    /\ user_rows(style_rows, call["c2"].user_id) # {}
    /\ call["c2"].user_id \notin DOMAIN style_features

-----------------------------------------------------------------------------
(* SpecAnalyze: _analyze_style applied to the batch drawn at the start, of  *)
(* no message up to MaxBatchLen messages, at any time of the clock          *)

MaxBatchLen == 3

AnalyzeRows ==
    { insert_message(<<>>, m)[1] :
        m \in { Msg("u1", T_hello, S1, StartTime),
                Msg("u1", T_hi_q, S1, StartTime),
                Msg("u1", T_hi_q_sp, S1, StartTime),
                Reply(Msg("u1", T_bad, S1, StartTime)) } }

AnalyzeInit ==
    \E batch \in UNION {[1..n -> AnalyzeRows] : n \in 0..MaxBatchLen} :
        InitWith(DefaultConfig, batch)

\* style = self._analyze_style(user_id, messages)
AnalyzeStyle(c, user_id) ==
    /\ call[c].pc = "idle"
    /\ nCalls' = nCalls + 1
    /\ call' = [call EXCEPT ![c] =
                  [pc |-> "idle", raised |-> FALSE, op |-> "_analyze_style",
                   style |-> _analyze_style(user_id, input, now)]]
    /\ UNCHANGED <<VarsButStyle, style_rows, style_features>>

NextAnalyze ==
    \/ nCalls < 1 /\ AnalyzeStyle("c1", "u1")
    \/ Tick

SpecAnalyze == AnalyzeInit /\ [][NextAnalyze]_vars

Analyzed(c) == call[c].pc = "idle" /\ "op" \in DOMAIN call[c] /\ call[c].op = "_analyze_style"

\* the sum of two floats that are quotients of small counts
Plus(x, y) == Frac(x.num * y.den + y.num * x.den, x.den * y.den)

\* C17: _analyze_style returns the empty bundle for the empty batch, and for a
\* batch that is not empty a bundle whose question_ratio and statement_ratio
\* add up to 1
C17_AnalyzerPartition ==
    \A c \in Callers :
        Analyzed(c) =>
            IF input = <<>>
            THEN call[c].style = EmptyDict
            ELSE /\ call[c].style # EmptyDict
                 /\ Plus(call[c].style.conversation_style.question_ratio,
                         call[c].style.conversation_style.statement_ratio) = Frac(1, 1)

\* a batch of three messages, one of them a question and one with a question
\* mark that does not end it, has been analyzed
C17_OneQuestionInThree ==
    /\ Analyzed("c1")
    /\ Len(input) = 3
    /\ \E i \in 1..3 : input[i].content = T_hi_q_sp
    /\ call["c1"].style.conversation_style.question_ratio = Frac(1, 3)
    /\ call["c1"].style.conversation_style.statement_ratio = Frac(2, 3)

-----------------------------------------------------------------------------
(* SpecPrompt: bundles of the analyzer are saved for two users, and both    *)
(* callers ask for style prompts, one call after the other, with unloads    *)
(* emptying the cache in between and the clock advancing; storage works     *)

MaxPromptCalls == 5

PromptBundles(user_id) ==
    LET row(m) == insert_message(<<>>, m)[1]
        hello == row(Msg(user_id, T_hello, S1, StartTime))
        hi_q == row(Msg(user_id, T_hi_q, S1, StartTime))
    IN  { _analyze_style(user_id, batch, StartTime) : batch \in {<<hello>>, <<hi_q>>} }

PromptCall ==
    /\ AllIdle
    /\ nCalls < MaxPromptCalls
    /\ \/ \E user_id \in RoundTripUsers :
            \E style \in PromptBundles(user_id) : SaveStyleFeatures("c1", user_id, style)
       \/ \E c \in Callers, user_id \in RoundTripUsers : GetStylePrompt(c, user_id)
       \/ UnloadBegin("c2")

NextPrompt ==
    \/ PromptCall
    \/ FeaturesWrite("c1", {TRUE})
    \/ FeaturesCache("c1")
    \/ \E c \in Callers : GetUserStyleRead(c, {TRUE})
    \/ \E c \in Callers : GetUserStyleCache(c)
    \/ UnloadJoin("c2")
    \/ UnloadClear("c2")
    \/ Tick

SpecPrompt == RoundTripInit /\ [][NextPrompt]_vars

GotPrompt(c) ==
    /\ call[c].pc = "idle" /\ "op" \in DOMAIN call[c]
    /\ call[c].op = "get_style_prompt"
    /\ ~call[c].raised
    /\ ~falsy(call[c].style)

\* C18: two get_style_prompt evaluations over bundles with the same
\* language_style, emotional_style and conversation_style returned the same
\* text, whatever the user, the scene patterns, the update time and the source
\* (cache or rows) of each bundle
C18_SameStyleSamePrompt ==
    (GotPrompt("c1") /\ GotPrompt("c2")
     /\ SameDimensions(call["c1"].style, call["c2"].style))
    => call["c1"].prompt = call["c2"].prompt

\* the bundle of one user came from the cache and that of the other user from
\* the rows at a later time: equal dimensions, all else different, one text
C18_CacheAndRows ==
    /\ GotPrompt("c1") /\ GotPrompt("c2")
    /\ SameDimensions(call["c1"].style, call["c2"].style)
    /\ call["c1"].source = "cache" /\ call["c2"].source = "rows"
    /\ call["c1"].style.user_id # call["c2"].style.user_id
    /\ call["c1"].style.scene_patterns # call["c2"].style.scene_patterns
    /\ call["c1"].style.update_time # call["c2"].style.update_time
    /\ Len(call["c1"].prompt) >= 2
    /\ call["c1"].prompt = call["c2"].prompt

-----------------------------------------------------------------------------
(* Claims checked under Spec: the shutdown and the trigger *)

\* C19 as stated: while on_plugin_unload waits in join for a registered task,
\* a task that has reached its finally block can take its last step, the
\* removal of its marker, and end
C19_TaskCanEndDuringJoin ==
    \A c \in Callers : \A i \in 1..Len(tasks) :
        (call[c].pc = "unload_join" /\ tasks[i].pc = "cleanup") => ENABLED TaskCleanup(i)

\* the trigger rule: no marker of the session, and the stored valid messages
\* of the user are batch_size or more
Due(md) ==
    /\ md.session_id \notin DOMAIN learning_tasks
    /\ _get_valid_message_count(messages, md.user_id) >= config.batch_size

Launches(c, CountOutcomes) == TriggerLearning(c, CountOutcomes) /\ call'[c].pc = "start"

Declines(c, CountOutcomes) == TriggerLearning(c, CountOutcomes) /\ call'[c].pc = "idle"

\* C20: a _trigger_learning whose count succeeds launches a task exactly when
\* the rule holds, and then it does launch; one whose count fails launches
\* nothing
C20_Rule ==
    \A c \in Callers :
        (call[c].pc = "trigger" /\ tasks_lock = "free") =>
            /\ Due(call[c].message) <=> ENABLED Launches(c, {TRUE})
            /\ Due(call[c].message) => ~ENABLED Declines(c, {TRUE})
            /\ ~ENABLED Launches(c, {FALSE})
            /\ ENABLED Declines(c, {FALSE})

\* a launch happens under the rule only, starts one task of the session and
\* registers its marker; a _trigger_learning that launches nothing leaves the
\* registry and the tasks as they were
C20_Step ==
    \A c \in Callers :
        /\ (call[c].pc = "trigger" /\ call'[c].pc = "start") => Due(call[c].message)
        /\ (call[c].pc = "trigger" /\ call'[c].pc = "idle") =>
              UNCHANGED <<tasks, learning_tasks>>
        /\ (call[c].pc = "start" /\ call'[c].pc = "register") =>
              /\ Len(tasks') = Len(tasks) + 1
              /\ tasks'[Len(tasks')].session_id = call[c].message.session_id
        /\ (call[c].pc = "register" /\ call'[c].pc = "idle") =>
              call[c].message.session_id \in DOMAIN learning_tasks'

C20_TriggerRule == [](C20_Rule) /\ [][C20_Step]_vars

\* the count had reached batch_size and the first task had ended: the next
\* accepted message launched a second analysis of the session
C20_SecondLaunch ==
    /\ Len(tasks) = 2
    /\ tasks[1].pc = "done"
    /\ tasks[2].session_id = tasks[1].session_id
    /\ tasks[2].session_id \in DOMAIN learning_tasks
    /\ _get_valid_message_count(messages, tasks[2].user_id) > config.batch_size

-----------------------------------------------------------------------------
(* Claims checked under SpecImport: the age of import entries *)

\* the line that the next iteration of the import loop of caller c visits
NextLine(c) == strip(call[c].args.lines[call[c].i + 1])

\* C21 as stated: a line that passes the gate and whose import entry in the
\* dedup cache is one hour old or older is not counted as a duplicate but
\* counted as imported
C21_StaleEntryStep ==
    \A c \in Callers :
        ( /\ call[c].pc = "import_line"
          /\ call[c].i < Len(call[c].args.lines)
          /\ call'[c] # call[c]
          /\ LET key == import_cache_key(call[c].args.session_id, NextLine(c))
             IN  /\ key \in DOMAIN message_cache
                 /\ now - message_cache[key].timestamp >= CacheTTL )
        => /\ call'[c].result.duplicate_lines = call[c].result.duplicate_lines
           /\ call'[c].result.imported_lines = call[c].result.imported_lines + 1
C21_StaleImportEntryIsEvicted == [][C21_StaleEntryStep]_vars

-----------------------------------------------------------------------------
(* SpecBatch: caller c1 handles messages of two users, of user u1 in two    *)
(* sessions, whose send_time is earlier than, equal to or later than that   *)
(* of the messages stored before; storage works                             *)

MaxBatchCalls == 4

BatchMessages ==
    {Msg("u1", T_hello, S1, StartTime + d) : d \in {60, 120}}
    \cup {Msg("u1", T_hello, S2, StartTime), Msg("u2", T_hello, S1, StartTime + 60)}

NextBatch ==
    \/ \E m \in BatchMessages : nCalls < MaxBatchCalls /\ HandleMessage("c1", m)
    \/ SaveMessage("c1", {TRUE}, {TRUE})
    \/ TriggerLearning("c1", {TRUE})
    \/ StartTask("c1")
    \/ RegisterTask("c1")
    \/ \E i \in 1..Len(tasks) : ScenarioTaskStep(i)

SpecBatch == ScenarioInit /\ [][NextBatch]_vars

Min(a, b) == IF a < b THEN a ELSE b

RowsOfUser(user_id) == {i \in 1..Len(messages) : messages[i].user_id = user_id}

\* a batch of exactly the min(batch_size, n) most recent messages of the user
MostRecent(batch, user_id) ==
    LET taken == {batch[j].id : j \in 1..Len(batch)}
    IN  /\ Len(batch) = Min(config.batch_size, Cardinality(RowsOfUser(user_id)))
        /\ Cardinality(taken) = Len(batch)
        /\ taken \subseteq RowsOfUser(user_id)
        /\ \A j \in 1..Len(batch) : batch[j] = messages[batch[j].id]
        /\ \A i \in RowsOfUser(user_id) \ taken : \A j \in 1..Len(batch) :
              messages[i].send_time <= batch[j].send_time

\* C22: every batch that a task about to fetch can be handed is made of
\* exactly the min(batch_size, n) messages of its user with the latest
\* send_time, whatever their sessions and the order they were stored in
C22_BatchIsMostRecent ==
    \A i \in 1..Len(tasks) :
        tasks[i].pc = "fetch" =>
            \A batch \in _get_user_messages(messages, tasks[i].user_id, config.batch_size) :
                MostRecent(batch, tasks[i].user_id)

\* a task is about to fetch while its user has more than batch_size messages
\* in two sessions, the one stored last being the oldest, and another user
\* has a message too
C22_OldestStoredLast ==
    /\ \E i \in 1..Len(tasks) : tasks[i].pc = "fetch" /\ tasks[i].user_id = "u1"
    /\ Cardinality(RowsOfUser("u1")) > config.batch_size
    /\ RowsOfUser("u2") # {}
    /\ {messages[i].session_id : i \in RowsOfUser("u1")} = {S1, S2}
    /\ LET last == CHOOSE i \in RowsOfUser("u1") : \A o \in RowsOfUser("u1") : o <= i
       IN  \A o \in RowsOfUser("u1") \ {last} :
              messages[last].send_time < messages[o].send_time

-----------------------------------------------------------------------------
(* Claims checked under SpecGate: the questions of a batch *)

\* the content with its white space trimmed ends with '?' or the full-width '？'
TrimmedQuestion(content) ==
    endswith(strip(content), <<"?">>) \/ endswith(strip(content), <<"U+FF1F">>)

\* C23 as stated: in the style a task has computed, the messages of its user
\* count as questions when their trimmed content ends with a question mark,
\* and as statements otherwise
C23_TrimmedQuestions ==
    \A i \in 1..Len(tasks) :
        tasks[i].style # EmptyDict =>
            LET rows == {r \in 1..Len(messages) : messages[r].user_id = tasks[i].user_id}
                asked == {r \in rows : TrimmedQuestion(messages[r].content)}
                conv == tasks[i].style.conversation_style
            IN  /\ asked = rows =>
                      conv.question_ratio = Frac(1, 1) /\ conv.statement_ratio = Frac(0, 1)
                /\ asked = {} =>
                      conv.question_ratio = Frac(0, 1) /\ conv.statement_ratio = Frac(1, 1)

-----------------------------------------------------------------------------
(* SpecEmotion: _analyze_style applied to the batch drawn at the start, of  *)
(* messages with a positive word, a negative word, both or neither          *)

MaxEmotionLen == 6

EmotionRows ==
    { insert_message(<<>>, Msg("u1", t, S1, StartTime))[1] :
        t \in {T_good, T_neg, T_both, T_hello} }

EmotionInit ==
    \E batch \in UNION {[1..n -> EmotionRows] : n \in 0..MaxEmotionLen} :
        InitWith(DefaultConfig, batch)

NextEmotion == nCalls < 1 /\ AnalyzeStyle("c1", "u1")

SpecEmotion == EmotionInit /\ [][NextEmotion]_vars

\* the triples of quotients p/n, q/n, r/n with p + q + r = n <= 8 for which
\* the float sum (p/n + q/n) + r/n is rounded to 0.9999999999999999
RoundedDown ==
    { <<Frac(1, 7), Frac(4, 7), Frac(2, 7)>>,
      <<Frac(1, 6), Frac(2, 3), Frac(1, 6)>>,
      <<Frac(2, 7), Frac(3, 7), Frac(2, 7)>>,
      <<Frac(1, 3), Frac(1, 2), Frac(1, 6)>>,
      <<Frac(3, 7), Frac(2, 7), Frac(2, 7)>>,
      <<Frac(1, 2), Frac(1, 3), Frac(1, 6)>>,
      <<Frac(4, 7), Frac(1, 7), Frac(2, 7)>>,
      <<Frac(2, 3), Frac(1, 6), Frac(1, 6)>> }

\* repr() of the float sum (x + y) + z of three ratios of one batch
float_sum3(x, y, z) ==
    IF <<x, y, z>> \in RoundedDown THEN "0.9999999999999999"
    ELSE str_float(Plus(Plus(x, y), z))

Matches(content, words) == \E w \in words : contains(content, w)

\* the messages of the batch with a positive word only, with a negative word
\* only, and the rest: with both or with neither
OnlyPositive ==
    {i \in 1..Len(input) : /\ Matches(input[i].content, positive_words)
                           /\ ~Matches(input[i].content, negative_words)}

OnlyNegative ==
    {i \in 1..Len(input) : /\ Matches(input[i].content, negative_words)
                           /\ ~Matches(input[i].content, positive_words)}

Neutral == (1..Len(input)) \ (OnlyPositive \cup OnlyNegative)

Classified(emo) ==
    /\ emo.positive_ratio = Frac(Cardinality(OnlyPositive), Len(input))
    /\ emo.negative_ratio = Frac(Cardinality(OnlyNegative), Len(input))
    /\ emo.neutral_ratio = Frac(Cardinality(Neutral), Len(input))
    /\ emo.emotion_expression_degree = Frac(1, 2)

\* C24 as stated: every message of a batch is counted in exactly one class,
\* the three ratios as floats add up to exactly 1, and the degree is 0.5
C24_RatiosSumToOne ==
    (Analyzed("c1") /\ input # <<>>) =>
        LET emo == call["c1"].style.emotional_style
        IN  /\ Classified(emo)
            /\ float_sum3(emo.positive_ratio, emo.negative_ratio, emo.neutral_ratio) = "1.0"

\* C24 amended: every message of a batch is counted in exactly one class, so
\* the three counts add up to the size of the batch and the degree is 0.5; the
\* float sum of the three ratios is 1 or, rounded, 0.9999999999999999, and it
\* is 1 for every batch of up to five messages
C24_CountsPartition ==
    (Analyzed("c1") /\ input # <<>>) =>
        LET emo == call["c1"].style.emotional_style
        IN  /\ Classified(emo)
            /\ Plus(Plus(emo.positive_ratio, emo.negative_ratio), emo.neutral_ratio)
                 = Frac(1, 1)
            /\ float_sum3(emo.positive_ratio, emo.negative_ratio, emo.neutral_ratio)
                 \in {"1.0", "0.9999999999999999"}
            /\ Len(input) <= 5 =>
                 float_sum3(emo.positive_ratio, emo.negative_ratio, emo.neutral_ratio) = "1.0"

\* a batch of six messages, one with a positive word only, four with a
\* negative word only and one with both, has been analyzed
C24_OneFourOne ==
    /\ Analyzed("c1")
    /\ Len(input) = 6
    /\ \E i \in 1..6 : input[i].content = T_both
    /\ call["c1"].style.emotional_style.positive_ratio = Frac(1, 6)
    /\ call["c1"].style.emotional_style.negative_ratio = Frac(4, 6)
    /\ call["c1"].style.emotional_style.neutral_ratio = Frac(1, 6)

-----------------------------------------------------------------------------
(* SpecSynth: the analyzer's bundle of the batch drawn at the start is      *)
(* saved by caller c1; caller c2 asks for the user's style prompt and       *)
(* unloads the plugin, one call after the other; storage works              *)

MaxSynthLen == 2

MaxSynthCalls == 3

SynthRows ==
    { insert_message(<<>>, m)[1] :
        m \in { Msg("u1", t, S1, StartTime) :
                  t \in {T_smile, T_wow, T_neg, T_hi_q, T_thanks, T_haha} }
              \cup {Reply(Msg("u1", T_hello, S1, StartTime))} }

SynthInit ==
    \E batch \in UNION {[1..n -> SynthRows] : n \in 1..MaxSynthLen} :
        InitWith(DefaultConfig, batch)

SynthCall ==
    /\ AllIdle
    /\ nCalls < MaxSynthCalls
    /\ \/ SaveStyleFeatures("c1", "u1", _analyze_style("u1", input, now))
       \/ GetStylePrompt("c2", "u1")
       \/ UnloadBegin("c2")

NextSynth ==
    \/ SynthCall
    \/ FeaturesWrite("c1", {TRUE})
    \/ FeaturesCache("c1")
    \/ GetUserStyleRead("c2", {TRUE})
    \/ GetUserStyleCache("c2")
    \/ UnloadJoin("c2")
    \/ UnloadClear("c2")

SpecSynth == SynthInit /\ [][NextSynth]_vars

\* the lines a prompt can have, in their fixed order
DirectiveOrder ==
    << "imitate this style",
       "- formal polite tone", "- casual relaxed tone", "- moderate tone",
       "- use emoji",
       "- use exclamation marks",
       "- positive attitude", "- cautious attitude",
       "- reply to questions",
       "- ask questions" >>

ToneDirectives == {"- formal polite tone", "- casual relaxed tone", "- moderate tone"}

AttitudeDirectives == {"- positive attitude", "- cautious attitude"}

Lines(prompt) == {prompt[i] : i \in 1..Len(prompt)}

\* when a line is due for a bundle: the header always, a tone by the band of
\* formal_degree, every other directive when its field is above its threshold
DirectiveDue(line, style) ==
    LET lang == style.language_style
        emo == style.emotional_style
        conv == style.conversation_style
    IN  CASE line = "imitate this style" -> TRUE
          [] line = "- formal polite tone" -> Gt(lang.formal_degree, Frac(7, 10))
          [] line = "- casual relaxed tone" -> Lt(lang.formal_degree, Frac(3, 10))
          [] line = "- moderate tone" ->
                ~Gt(lang.formal_degree, Frac(7, 10)) /\ ~Lt(lang.formal_degree, Frac(3, 10))
          [] line = "- use emoji" -> Gt(lang.emoji_frequency, Frac(1, 2))
          [] line = "- use exclamation marks" -> Gt(lang.exclamation_frequency, Frac(3, 10))
          [] line = "- positive attitude" -> Gt(emo.positive_ratio, Frac(6, 10))
          [] line = "- cautious attitude" ->
                ~Gt(emo.positive_ratio, Frac(6, 10)) /\ Gt(emo.negative_ratio, Frac(4, 10))
          [] line = "- reply to questions" -> Gt(conv.reply_ratio, Frac(1, 2))
          [] line = "- ask questions" -> Gt(conv.question_ratio, Frac(3, 10))

\* C25: the prompt of a known bundle is the header and then, in the fixed
\* order, exactly the directives that are due: one tone, at most one attitude,
\* every other directive if and only if its field is above its threshold
C25_PromptStructure ==
    GotPrompt("c2") =>
        LET style == call["c2"].style
            prompt == call["c2"].prompt
            IsDue(line) == DirectiveDue(line, style)
        IN  /\ prompt = SelectSeq(DirectiveOrder, IsDue)
            /\ prompt[1] = "imitate this style"
            /\ Cardinality({i \in 1..Len(prompt) : prompt[i] \in ToneDirectives}) = 1
            /\ Cardinality({i \in 1..Len(prompt) : prompt[i] \in AttitudeDirectives}) <= 1

\* a prompt rebuilt from the rows of a bundle with reply_ratio at its
\* threshold 0.5 and exclamation_frequency above its threshold 0.3: the reply
\* directive is absent, the exclamation directive present
C25_AtAndAboveThreshold ==
    /\ GotPrompt("c2")
    /\ call["c2"].source = "rows"
    /\ call["c2"].style.conversation_style.reply_ratio = Frac(1, 2)
    /\ call["c2"].style.language_style.exclamation_frequency = Frac(1, 2)
    /\ "- reply to questions" \notin Lines(call["c2"].prompt)
    /\ call["c2"].prompt =
         <<"imitate this style", "- moderate tone", "- use exclamation marks">>

FormalDegrees == {Frac(3, 10), Frac(5, 10), Frac(7, 10)}

\* C29: the formal_degree of an analysed bundle, as cached and as rebuilt from
\* its rows, is 0.3, 0.5 or 0.7, and the prompt of such a bundle has the
\* moderate tone line and neither the formal nor the casual one
C29_ToneIsAlwaysModerate ==
    /\ input # NoInput =>
          _analyze_style("u1", input, now).language_style.formal_degree \in FormalDegrees
    /\ GotPrompt("c2") =>
          /\ call["c2"].style.language_style.formal_degree \in FormalDegrees
          /\ "- moderate tone" \in Lines(call["c2"].prompt)
          /\ "- formal polite tone" \notin Lines(call["c2"].prompt)
          /\ "- casual relaxed tone" \notin Lines(call["c2"].prompt)

\* the prompt of a bundle whose formal words outnumber the informal ones,
\* rebuilt from its rows with formal_degree 0.7: the tone line is the moderate one
C29_FormalBatchModerate ==
    /\ GotPrompt("c2")
    /\ call["c2"].source = "rows"
    /\ call["c2"].style.language_style.formal_degree = Frac(7, 10)
    /\ \A i \in 1..Len(input) : TextFacts[input[i].content].formal
    /\ call["c2"].prompt[2] = "- moderate tone"

\* the same for a batch whose informal words outnumber the formal ones, served
\* from the cache with formal_degree 0.3
C29_CasualBatchModerate ==
    /\ GotPrompt("c2")
    /\ call["c2"].source = "cache"
    /\ call["c2"].style.language_style.formal_degree = Frac(3, 10)
    /\ call["c2"].prompt[2] = "- moderate tone"

-----------------------------------------------------------------------------
(* SpecSave: _save_style_features statement by statement. The three loops   *)
(* write on the call's own connection; the table other connections read     *)
(* changes at conn.commit(). A loop or the commit may fail, which drops the *)
(* connection with what it wrote. Caller c1 saves, caller c2 asks for the   *)
(* style and unloads the plugin, one call after the other.                  *)

MaxSaveCalls == 4

SaveLoops ==
    << [dimension |-> "language_style", prefix |-> "language_", confidence |-> Frac(8, 10)],
       [dimension |-> "emotional_style", prefix |-> "emotion_", confidence |-> Frac(7, 10)],
       [dimension |-> "conversation_style", prefix |-> "conversation_", confidence |-> Frac(8, 10)] >>

uncommitted_autocommit(table, pending) == pending @@ table

\* the table as other connections read it while this connection has written
\* pending and not committed
uncommitted(table, pending) == table

\* the table after conn.commit()
committed(table, pending) == pending @@ table

SaveFailed(r, statements) ==
    Saved(r.user_id, r.style, FALSE) @@ [statements |-> statements]

\* sqlite3.connect, conn.cursor()
SaveBegin(c, user_id, style) ==
    /\ call[c].pc = "idle"
    /\ nCalls' = nCalls + 1
    /\ call' = [call EXCEPT ![c] = [pc |-> "features_execute", user_id |-> user_id,
                                    style |-> style, loop |-> 1, pending |-> EmptyDict]]
    /\ UNCHANGED <<VarsButStyle, style_rows, style_features>>

\* one of the three for loops of cursor.execute(INSERT OR REPLACE ...)
SaveExecute(c, WriteOutcomes) ==
    /\ call[c].pc = "features_execute"
    /\ LET r == call[c]
           loop == SaveLoops[r.loop]
       IN  \E ok \in WriteOutcomes :
             IF ok /\ loop.dimension \in DOMAIN r.style
             THEN LET pending == prefixed_rows(r.user_id, loop.prefix,
                                               r.style[loop.dimension], loop.confidence)
                                 @@ r.pending
                  IN  /\ call' = [call EXCEPT ![c].pending = pending,
                                              ![c].loop = r.loop + 1,
                                              ![c].pc = IF r.loop = Len(SaveLoops)
                                                        THEN "features_commit"
                                                        ELSE "features_execute"]
                      /\ style_rows' = uncommitted(style_rows, pending)
             ELSE /\ call' = [call EXCEPT ![c] = SaveFailed(r, r.loop - 1)]
                  /\ UNCHANGED style_rows
    /\ UNCHANGED <<VarsButStyle, style_features, nCalls>>

\* conn.commit(), conn.close()
SaveCommit(c, WriteOutcomes) ==
    /\ call[c].pc = "features_commit"
    /\ \E ok \in WriteOutcomes :
         IF ok
         THEN /\ style_rows' = committed(style_rows, call[c].pending)
              /\ call' = [call EXCEPT ![c].pc = "features_cache"]
         ELSE /\ call' = [call EXCEPT ![c] = SaveFailed(call[c], Len(SaveLoops))]
              /\ UNCHANGED style_rows
    /\ UNCHANGED <<VarsButStyle, style_features, nCalls>>

SaveCall ==
    /\ AllIdle
    /\ nCalls < MaxSaveCalls
    /\ \/ \E style \in RoundTripBundles("u1") : SaveBegin("c1", "u1", style)
       \/ GetStylePrompt("c2", "u1")
       \/ UnloadBegin("c2")

NextSave ==
    \/ SaveCall
    \/ SaveExecute("c1", BOOLEAN)
    \/ SaveCommit("c1", BOOLEAN)
    \/ FeaturesCache("c1")
    \/ GetUserStyleRead("c2", {TRUE})
    \/ GetUserStyleCache("c2")
    \/ UnloadJoin("c2")
    \/ UnloadClear("c2")

SpecSave == RoundTripInit /\ [][NextSave]_vars

SaveInProgress(r) == r.pc \in {"features_execute", "features_commit"}

\* a step of a save before its cache write: it leaves the cache alone; up to
\* the commit it leaves the table alone; a failure ends the call with no error
\* raised; a commit leaves the rows of the whole bundle
C26_SaveStep ==
    SaveInProgress(call["c1"]) =>
        /\ style_features' = style_features
        /\ call["c1"].pc = "features_execute" => style_rows' = style_rows
        /\ call'["c1"].pc = "idle" =>
              /\ ~call'["c1"].ok
              /\ ~call'["c1"].raised
              /\ style_rows' = style_rows
        /\ call'["c1"].pc = "features_cache" =>
              style_rows' = save_rows(style_rows, call["c1"].user_id, call["c1"].style)

\* what a load rebuilds from the table is nothing or the three dimensions of
\* one whole bundle that was saved
C26_WholeBundles ==
    \/ user_rows(style_rows, "u1") = {}
    \/ \E style \in RoundTripBundles("u1") \ {EmptyDict} :
          SameDimensions(rebuild_style(style_rows, "u1", now), style)

\* C26: a failed write of _save_style_features raises nothing, leaves the
\* cache entry as it was and leaves no row of the failed run in the table a
\* later load reads
C26_FailedSaveChangesNothing == [](C26_WholeBundles) /\ [][C26_SaveStep]_vars

\* a save that failed after two of its loops had run, while the cache and the
\* table hold another bundle of the user, followed by a load that served it
C26_FailedAfterTwoLoops ==
    /\ call["c1"].pc = "idle" /\ "statements" \in DOMAIN call["c1"]
    /\ call["c1"].statements = 2
    /\ "u1" \in DOMAIN style_features
    /\ ~SameDimensions(style_features["u1"], call["c1"].style)
    /\ SameDimensions(rebuild_style(style_rows, "u1", now), style_features["u1"])

-----------------------------------------------------------------------------
(* markers and the tasks they name, under Spec *)

\* every marker names a started task of its session that has not run its cleanup
C28_MarkerNamesLiveTask ==
    \A session_id \in DOMAIN learning_tasks :
        LET i == learning_tasks[session_id]
        IN  /\ i \in 1..Len(tasks)
            /\ tasks[i].session_id = session_id
            /\ tasks[i].pc # "done"

\* a task runs its cleanup only when its own marker is in the registry
C28_CleanupStep ==
    \A i \in 1..Len(tasks) :
        (tasks[i].pc = "cleanup" /\ tasks'[i].pc = "done") =>
            /\ tasks[i].session_id \in DOMAIN learning_tasks
            /\ learning_tasks[tasks[i].session_id] = i
            /\ tasks[i].session_id \notin DOMAIN learning_tasks'

\* C28: the marker removal of a task never runs before the marker is stored,
\* and a marker in learning_tasks names a task that has not run its cleanup
C28_RegisterBeforeCleanup == [](C28_MarkerNamesLiveTask) /\ [][C28_CleanupStep]_vars

\* a started task has reached its finally block while the caller that started
\* it has not yet stored the marker and still holds tasks_lock
C28_TaskWaitsForRegistration ==
    \E c \in Callers :
        /\ call[c].pc = "register"
        /\ tasks_lock = c
        /\ tasks[call[c].task].pc = "cleanup"
        /\ call[c].message.session_id \notin DOMAIN learning_tasks

-----------------------------------------------------------------------------
(* SpecCoherence: caller c1 feeds messages of one user in two sessions, the *)
(* analyses they launch run as threads, and caller c2 asks for the user's   *)
(* style, all interleaved; storage works                                    *)

MaxCoherenceCalls == 4

\* content, session and send_time of the messages fed
CoherenceMessages ==
    {<<T_hello, S1, StartTime>>, <<T_hi_q, S1, StartTime + 60>>, <<T_good, S2, StartTime + 120>>}

CoherenceFeed ==
    /\ nCalls < MaxCoherenceCalls
    /\ \E m \in CoherenceMessages :
         ~Stored(m[1]) /\ HandleMessage("c1", Msg("u1", m[1], m[2], m[3]))

NextCoherence ==
    \/ CoherenceFeed
    \/ SaveMessage("c1", {TRUE}, {TRUE})
    \/ TriggerLearning("c1", {TRUE})
    \/ StartTask("c1")
    \/ RegisterTask("c1")
    \/ \E i \in 1..Len(tasks) : ScenarioTaskStep(i)
    \/ nCalls < MaxCoherenceCalls /\ GetStylePrompt("c2", "u1")
    \/ GetUserStyleRead("c2", {TRUE})
    \/ GetUserStyleCache("c2")

SpecCoherence == ScenarioInit /\ [][NextCoherence]_vars

\* no call is in progress and every started analysis has ended
Quiescent == AllIdle /\ \A i \in 1..Len(tasks) : tasks[i].pc = "done"

\* C27: in a quiescent state a cached bundle has the language, emotional and
\* conversation values that the persisted rows of its user give
C27_CacheMatchesRows ==
    Quiescent =>
        \A user_id \in DOMAIN style_features :
            SameDimensions(style_features[user_id], rebuild_style(style_rows, user_id, now))

=============================================================================
